---- MODULE Spec2Model ----
(***************************************************************************)
(* A model of the stride-ai dashboard: the InteractiveRunningChart         *)
(* drill-down, the bucket aggregations of InteractiveRunningChart,         *)
(* SeasonStats and ThePulse, the 4-week summary and the race statistics.   *)
(*                                                                         *)
(* Units.  Lengths are held in hundredths of a mile.  A metre field that   *)
(* holds d stands for d * 16.0934 m, so the code's division by 1609.34 is  *)
(* the change of unit and a resolved distance d is d/100 miles.  Moving    *)
(* times are seconds.  A value "rounded to one decimal" is held as its     *)
(* number of tenths.  Instants are day numbers since 2015-01-01 times      *)
(* TicksPerDay plus a tick within the day (tick 0 is 00:00:00).            *)
(***************************************************************************)
EXTENDS Integers, Sequences, FiniteSets, TLC

VARIABLES
    activities,           \* data.activities
    races,                \* data.races
    stravaActivities,     \* the activities prop of TrainingSummaryChart
    now,                  \* the wall clock: new Date(), as an instant
    initialLevel,         \* InteractiveRunningChart prop
    selectedYear,         \* SeasonStats state, passed as the chart's prop (Undefined in ThePulse)
    drillDownLevel,       \* InteractiveRunningChart state
    selectedYearInternal, \* InteractiveRunningChart state
    selectedMonth,        \* InteractiveRunningChart state, Null or 0..11
    selectedWeek,         \* InteractiveRunningChart state, NoWeek or [weekStart, weekIndex]
    selectedFrom,         \* history: the level, month and week the last select started from; <<>> once another back ran
    opened,               \* the Activity ID the last handler passed to window.open, 0 if none
    lastOp,               \* history: the handler that ran last
    raceFilter,           \* BibBook state
    selectedDistance,     \* PerformanceLab state: a label, '' before the first effect
    probe,                \* the activity the classification helpers are applied to
    verdict,              \* what they returned
    earlier,              \* history: what the views showed at the evaluation before the clock moved
    urlCode,              \* AICoach: window.location.search carries an OAuth code
    strava_token,         \* AICoach: sessionStorage holds 'strava_token'
    isAuthenticated,      \* AICoach state
    athlete,              \* AICoach state: the id of the athlete, Null before the callback
    isAuthorized,         \* AICoach state
    isAnalyzing,          \* AICoach state
    currentPlan,          \* AICoach state: a training plan, NoPlan for null
    planMessages,         \* AICoach: the plans the chat messages carry
    lastMessage,          \* AICoach: the message addMessage appended last
    emailed,              \* how many times emailjs.send was reached
    scheduled,            \* how many times the calendar sign-in was reached
    userGoals,            \* the argument of the generateTrainingPlan call in flight
    inFlight,             \* history: the authorized generateTrainingPlan calls that have not returned
    stride_ai_plans,      \* localStorage: the plans saved under 'stride_ai_plans'
    messages,             \* AICoach state: the ids of the chat messages, the latest MaxMessages of them
    calendarEvents,       \* the events the last addToGoogleCalendar asked the calendar to insert
    insertsOk,            \* history: every insert of the last addToGoogleCalendar returned status 200
    successCount          \* the count in the last calendar success message, Null if there was none

vars == <<activities, races, stravaActivities, now, initialLevel, selectedYear, drillDownLevel,
          selectedYearInternal, selectedMonth, selectedWeek, selectedFrom, opened, lastOp,
          raceFilter, selectedDistance, probe, verdict, earlier,
          urlCode, strava_token, isAuthenticated, athlete, isAuthorized, isAnalyzing,
          currentPlan, planMessages, lastMessage, emailed, scheduled,
          userGoals, inFlight, stride_ai_plans, messages, calendarEvents, insertsOk, successCount>>

chartVars == <<drillDownLevel, selectedYearInternal, selectedMonth, selectedWeek, selectedFrom>>

\* what no handler of a mounted view writes: the loaded data, the clock, the props
inputVars == <<activities, races, stravaActivities, now, initialLevel>>

bibVars == <<raceFilter>>

labVars == <<selectedDistance>>

probeVars == <<probe, verdict>>

clockVars == <<earlier>>

coachVars == <<urlCode, strava_token, isAuthenticated, athlete, isAuthorized, isAnalyzing,
               currentPlan, planMessages, lastMessage, emailed, scheduled,
               userGoals, inFlight, stride_ai_plans, messages, calendarEvents, insertsOk, successCount>>

(***************************************************************************)
(* JavaScript values that are not numbers                                   *)
(***************************************************************************)
Null == -1
Infinity == -2
NaN == -3
Undefined == 0
\* A field the data file leaves out of a race reads as undefined.
Absent == -4
NoWeek == [weekStart |-> -1, weekIndex |-> -1]
NoVerdict == [done |-> FALSE, run |-> FALSE, trail |-> FALSE]

(***************************************************************************)
(* Bounds                                                                   *)
(***************************************************************************)
MaxActs == 2
TicksPerDay == 2
MaxRaces == 2
MaxGain == 501
MaxDirt == 501

(***************************************************************************)
(* The calendar (JavaScript Date, date-fns)                                 *)
(***************************************************************************)
BaseYear == 2015

IsLeap(y) == (y % 4 = 0 /\ y % 100 # 0) \/ y % 400 = 0

DaysInMonth(y, m) ==
    IF m = 1 THEN (IF IsLeap(y) THEN 29 ELSE 28)
    ELSE IF m \in {3, 5, 8, 10} THEN 30 ELSE 31

DaysInYear(y) == IF IsLeap(y) THEN 366 ELSE 365

RECURSIVE DaysBeforeYear(_)
DaysBeforeYear(y) == IF y <= BaseYear THEN 0 ELSE DaysBeforeYear(y - 1) + DaysInYear(y - 1)

RECURSIVE DaysBeforeMonth(_, _)
DaysBeforeMonth(y, m) == IF m = 0 THEN 0 ELSE DaysBeforeMonth(y, m - 1) + DaysInMonth(y, m - 1)

\* new Date(y, m, d): local midnight of a civil date, as a day number.  Day 0
\* of a month is the last day of the month before (new Date(y, m + 1, 0)).
DayNum(y, m, d) ==
    IF m = 12 THEN DaysBeforeYear(y + 1) + (d - 1)
    ELSE DaysBeforeYear(y) + DaysBeforeMonth(y, m) + (d - 1)

Instant(day, tick) == day * TicksPerDay + tick
DayOf(t) == t \div TicksPerDay
startOfDay(day) == Instant(day, 0)
endOfDay(day) == Instant(day, TicksPerDay - 1)

\* Date.getDay(): 0 = Sunday .. 6 = Saturday (2015-01-01 was a Thursday)
getDay(day) == (day + 4) % 7
\* weekStartsOn: 1
Monday == 1

startOfWeek(day, weekStartsOn) == day - ((getDay(day) - weekStartsOn + 7) % 7)
endOfWeek(day, weekStartsOn) == startOfWeek(day, weekStartsOn) + 6

startOfYear(y) == startOfDay(DayNum(y, 0, 1))
endOfYear(y) == endOfDay(DayNum(y, 11, 31))
startOfMonth(y, m) == startOfDay(DayNum(y, m, 1))
endOfMonth(y, m) == endOfDay(DayNum(y, m, DaysInMonth(y, m)))

isWithinInterval(t, start, end) == t >= start /\ t <= end

\* eachWeekOfInterval({start, end}) with the default weekStartsOn = 0: the
\* starts of the weeks from the week of start to the week of end.
RECURSIVE WeeksFrom(_, _)
WeeksFrom(first, last) == IF first > last THEN <<>> ELSE <<first>> \o WeeksFrom(first + 7, last)

eachWeekOfInterval(startDay, endDay) == WeeksFrom(startOfWeek(startDay, 0), startOfWeek(endDay, 0))

\* eachDayOfInterval({start, end})
eachDayOfInterval(startDay, endDay) == [i \in 1..(endDay - startDay + 1) |-> startDay + i - 1]

(***************************************************************************)
(* Strings: a string is the sequence of its characters                      *)
(***************************************************************************)
LowerOf(c) ==
    CASE c = "R" -> "r" [] c = "T" -> "t" [] c = "W" -> "w" [] c = "H" -> "h"
      [] c = "U" -> "u" [] c = "N" -> "n" [] c = "C" -> "c" [] c = "E" -> "e"
      [] c = "F" -> "f" [] c = "L" -> "l" [] c = "S" -> "s" [] OTHER -> c

toLowerCase(s) == [i \in 1..Len(s) |-> LowerOf(s[i])]

RECURSIVE trim(_)
trim(s) ==
    IF s = <<>> THEN s
    ELSE IF Head(s) = " " THEN trim(Tail(s))
    ELSE IF s[Len(s)] = " " THEN trim(SubSeq(s, 1, Len(s) - 1))
    ELSE s

includes(s, sub) ==
    \E i \in 1..(Len(s) - Len(sub) + 1) : SubSeq(s, i, i + Len(sub) - 1) = sub

\* String.split(c) on a one-character separator
RECURSIVE split(_, _)
split(s, c) ==
    IF \A i \in 1..Len(s) : s[i] # c THEN <<s>>
    ELSE LET i == CHOOSE j \in 1..Len(s) : s[j] = c /\ \A k \in 1..(j - 1) : s[k] # c
         IN  <<SubSeq(s, 1, i - 1)>> \o split(SubSeq(s, i + 1, Len(s)), c)

Digits == <<"0", "1", "2", "3", "4", "5", "6", "7", "8", "9">>
IsDigit(c) == \E d \in 1..10 : Digits[d] = c
DigitValue(c) == (CHOOSE d \in 1..10 : Digits[d] = c) - 1

RECURSIVE Decimal(_)
Decimal(s) == IF s = <<>> THEN 0 ELSE 10 * Decimal(SubSeq(s, 1, Len(s) - 1)) + DigitValue(s[Len(s)])

RECURSIVE trimStart(_)
trimStart(s) == IF s # <<>> /\ Head(s) = " " THEN trimStart(Tail(s)) ELSE s

\* the longest prefix of digits
RECURSIVE DigitPrefix(_)
DigitPrefix(s) == IF s # <<>> /\ IsDigit(Head(s)) THEN <<Head(s)>> \o DigitPrefix(Tail(s)) ELSE <<>>

\* the characters of the data in the order of their UTF-16 code units
CodeUnits ==
    <<" ", "-", ".", "/", "0", "1", "2", "3", "4", "5", "6", "7", "8", "9", ":", "A", "B", "C", "D", "E", "F", "G", "H", "I">> \o
    <<"J", "K", "L", "M", "N", "O", "P", "Q", "R", "S", "T", "U", "V", "W", "X", "Y", "Z", "a", "b", "c", "d", "e">> \o
    <<"f", "g", "h", "i", "j", "k", "l", "m", "n", "o", "p", "q", "r", "s", "t", "u", "v", "w", "x", "y", "z">>

charCodeAt(c) == CHOOSE i \in 1..Len(CodeUnits) : CodeUnits[i] = c

\* a < b on strings: the comparison of Array.prototype.sort() without a comparator
RECURSIVE StringLess(_, _)
StringLess(a, b) ==
    IF a = <<>> THEN b # <<>>
    ELSE IF b = <<>> THEN FALSE
    ELSE IF Head(a) = Head(b) THEN StringLess(Tail(a), Tail(b))
    ELSE charCodeAt(Head(a)) < charCodeAt(Head(b))

\* Array.from(set).sort()
RECURSIVE sortStrings(_)
sortStrings(S) ==
    IF S = {} THEN <<>>
    ELSE LET least == CHOOSE x \in S : \A y \in S \ {x} : StringLess(x, y)
         IN  <<least>> \o sortStrings(S \ {least})

\* String.replace(sub, by): the first occurrence only
replace(s, sub, by) ==
    IF ~includes(s, sub) THEN s
    ELSE LET i == CHOOSE j \in 1..(Len(s) - Len(sub) + 1) :
                    /\ SubSeq(s, j, j + Len(sub) - 1) = sub
                    /\ \A k \in 1..(j - 1) : SubSeq(s, k, k + Len(sub) - 1) # sub
         IN  SubSeq(s, 1, i - 1) \o by \o SubSeq(s, i + Len(sub), Len(s))

RECURSIVE ToDigits(_)
ToDigits(n) == IF n < 10 THEN <<Digits[n + 1]>> ELSE ToDigits(n \div 10) \o <<Digits[(n % 10) + 1]>>

RECURSIVE StripZeros(_)
StripZeros(s) == IF s # <<>> /\ s[Len(s)] = "0" THEN StripZeros(SubSeq(s, 1, Len(s) - 1)) ELSE s

RECURSIVE PadStart(_, _)
PadStart(s, n) == IF Len(s) >= n THEN s ELSE PadStart(<<"0">> \o s, n)

\* `${distance}` of a distance held as a number of 1/100000 mile
MilesToString(d) ==
    IF d % 100000 = 0 THEN ToDigits(d \div 100000)
    ELSE ToDigits(d \div 100000) \o <<".">> \o StripZeros(PadStart(ToDigits(d % 100000), 5))

\* parseFloat(s) of an unsigned decimal, as a number of 1/100000 mile: the
\* digits, then a point and the digits after it; NaN without a digit
parseFloat(s) ==
    LET t == trimStart(s)
        whole == DigitPrefix(t)
        rest == SubSeq(t, Len(whole) + 1, Len(t))
        fraction == IF rest # <<>> /\ Head(rest) = "." THEN DigitPrefix(Tail(rest)) ELSE <<>>
        five == SubSeq(fraction \o <<"0", "0", "0", "0", "0">>, 1, 5)
    IN  IF whole = <<>> /\ fraction = <<>> THEN NaN
        ELSE Decimal(whole) * 100000 + Decimal(five)

(***************************************************************************)
(* Numbers: a quotient the code computes is kept as a fraction until it is  *)
(* rounded, so that Math.round sees the exact value                         *)
(***************************************************************************)
Num(n, d) == [k |-> "num", n |-> n, d |-> d]

\* n / d in JavaScript, for n >= 0 and d >= 0
JsDiv(n, d) ==
    IF d # 0 THEN Num(n, d)
    ELSE IF n = 0 THEN [k |-> "nan", n |-> 0, d |-> 1]
    ELSE [k |-> "inf", n |-> 1, d |-> 1]

\* rounding that truncates instead of rounding to the nearest tenth
RoundTenths_truncates(x) ==
    CASE x.k = "num" -> (10 * x.n) \div x.d
      [] x.k = "inf" -> Infinity
      [] OTHER -> NaN

\* Math.round(x * 10) / 10, as a number of tenths
RoundTenths(x) ==
    CASE x.k = "num" -> (20 * x.n + x.d) \div (2 * x.d)
      [] x.k = "inf" -> Infinity
      [] OTHER -> NaN

\* Math.round(x * 100) / 100, as a number of hundredths
RoundHundredths(x) ==
    CASE x.k = "num" -> (200 * x.n + x.d) \div (2 * x.d)
      [] x.k = "inf" -> Infinity
      [] OTHER -> NaN

\* miles, from hundredths of a mile
Miles(c) == Num(c, 100)

\* (hours * 60) / miles with hours = seconds / 3600 and miles = c / 100
PaceRatio(seconds, c) == JsDiv(5 * seconds, 3 * c)

\* a test for null alone, which lets a pace of 0 through
Truthy_onlyNull(p) == p.k # "null"

\* the truthiness test of `pace ? ... : null` on a pace that is null or a number
Truthy(p) == p.k = "inf" \/ (p.k = "num" /\ p.n # 0)

Abs(x) == IF x < 0 THEN -x ELSE x

NullNumber == [k |-> "null", n |-> 0, d |-> 1]
NaNNumber == [k |-> "nan", n |-> 0, d |-> 1]
UndefinedValue == <<"undefined">>

\* parseInt(s): leading blanks, an optional sign, then the digits up to the
\* first character that is not one; NaN when there is no digit
parseInt(s) ==
    LET t == trimStart(s)
        signed == t # <<>> /\ Head(t) \in {"+", "-"}
        digits == DigitPrefix(IF signed THEN Tail(t) ELSE t)
    IN  IF s = UndefinedValue \/ digits = <<>> THEN NaNNumber
        ELSE IF signed /\ Head(t) = "-" THEN Num(0 - Decimal(digits), 1)
        ELSE Num(Decimal(digits), 1)

\* Number(s) on a string without ".", "x" or "e": blanks trimmed, "" is 0,
\* an optional sign and digits only, anything else NaN
Number(s) ==
    LET t == trim(s)
        signed == t # <<>> /\ Head(t) \in {"+", "-"}
        body == IF signed THEN Tail(t) ELSE t
    IN  IF s = UndefinedValue THEN NaNNumber
        ELSE IF t = <<>> THEN Num(0, 1)
        ELSE IF body = <<>> \/ DigitPrefix(body) # body THEN NaNNumber
        ELSE IF Head(t) = "-" THEN Num(0 - Decimal(body), 1)
        ELSE Num(Decimal(body), 1)

\* h * 3600 + m * 60 + s, NaN as soon as one of them is
HMS(h, m, sec) ==
    IF h.k = "nan" \/ m.k = "nan" \/ sec.k = "nan" THEN NaNNumber
    ELSE Num(h.n * 3600 + m.n * 60 + sec.n, 1)

\* a < b and a > 0 on JavaScript numbers: false when either is NaN
LessThan(a, b) == a.k = "num" /\ b.k = "num" /\ a.n < b.n
Positive(a) == a.k = "num" /\ a.n > 0

\* array[i] of a destructuring: undefined past the end
ElementOr(parts, i) == IF i <= Len(parts) THEN parts[i] ELSE UndefinedValue

(***************************************************************************)
(* Activities                                                               *)
(***************************************************************************)
\* parse(act['Activity Date'], 'MMM dd, yyyy, h:mm:ss a', new Date()): the
\* instant, or NaN (Invalid Date) when the string does not match
parse(s) == IF s.valid THEN Instant(DayNum(s.y, s.m, s.d), s.tick) ELSE NaN

RECURSIVE YearOfDay(_, _)
YearOfDay(day, y) == IF day < DaysBeforeYear(y + 1) THEN y ELSE YearOfDay(day, y + 1)

\* Date.getFullYear(): NaN for an Invalid Date
getFullYear(t) == IF t = NaN THEN NaN ELSE YearOfDay(DayOf(t), BaseYear)

\* the helper isRunningActivity of InteractiveRunningChart, SeasonStats and ThePulse
isRunningActivity(activityType) ==
    IF activityType = <<>> THEN FALSE
    ELSE LET type == trim(toLowerCase(activityType))
         IN  includes(type, <<"r", "u", "n">>)
             /\ ~includes(type, <<"w", "a", "l", "k">>)
             /\ ~includes(type, <<"h", "i", "k", "e">>)

\* parseFloat(s) || 0 on the Distance string
parseFloatOrZero(s) == IF s = NaN THEN 0 ELSE s

\* act['Distance.1'] ? act['Distance.1'] / 1609.34 : (parseFloat(act.Distance) || 0)
distanceOf(act) == IF act.Distance1 # 0 THEN act.Distance1 ELSE parseFloatOrZero(act.Distance)

\* a classification that asks for both criteria
isTrailRun_bothRequired(activity) ==
    LET totalDistance == IF activity.Distance1 # 0 THEN activity.Distance1 ELSE activity.Distance
    IN  /\ totalDistance > 0
        /\ 100 * activity.ElevationGain > 50 * totalDistance
        /\ 100 * activity.DirtDistance > 50 * totalDistance

\* the helper isTrailRun of InteractiveRunningChart, SeasonStats and ThePulse.
\* elevationGain / totalDistance > 50 with totalDistance = c / 100 miles is
\* 100 * elevationGain > 50 * c; (dirt / 1609.34) / totalDistance * 100 > 50
\* is 100 * dirt > 50 * c.
isTrailRun(activity) ==
    LET dirtDistance == activity.DirtDistance
        elevationGain == activity.ElevationGain
        totalDistance == IF activity.Distance1 # 0 THEN activity.Distance1 ELSE activity.Distance
        elevationOver == IF totalDistance > 0 THEN 100 * elevationGain > 50 * totalDistance ELSE FALSE
        dirtOver == IF totalDistance > 0 THEN 100 * dirtDistance > 50 * totalDistance ELSE FALSE
    IN  elevationOver \/ dirtOver

\* the .map(act => ({...act, date, distance, hours, isTrail})) of every aggregation
Mapped(act) ==
    [src |-> act,
     date |-> parse(act.ActivityDate),
     distance |-> distanceOf(act),
     seconds |-> act.MovingTime,
     isTrail |-> isTrailRun(act)]

MapSeq(s) == [i \in 1..Len(s) |-> Mapped(s[i])]

IsRunSrc(a) == isRunningActivity(a.ActivityType)
From2016(a) == getFullYear(a.date) >= 2016
IsTrail(a) == a.isTrail
IsRoad(a) == ~a.isTrail

\* data.activities.filter(isRunningActivity).map(...).filter(year >= 2016)
runningActivities == SelectSeq(MapSeq(SelectSeq(activities, IsRunSrc)), From2016)

RECURSIVE SumDistance(_)
SumDistance(s) == IF s = <<>> THEN 0 ELSE SumDistance(SubSeq(s, 1, Len(s) - 1)) + s[Len(s)].distance

RECURSIVE SumSeconds(_)
SumSeconds(s) == IF s = <<>> THEN 0 ELSE SumSeconds(SubSeq(s, 1, Len(s) - 1)) + s[Len(s)].seconds

WithinSeq(s, start, end) ==
    LET In(a) == isWithinInterval(a.date, start, end) IN SelectSeq(s, In)

(***************************************************************************)
(* InteractiveRunningChart: the aggregations                                *)
(***************************************************************************)
\* selectedYear || selectedYearInternal
currentYear == IF selectedYear # Undefined THEN selectedYear ELSE selectedYearInternal

RECURSIVE SortAscending(_)
SortAscending(S) ==
    IF S = {} THEN <<>>
    ELSE LET least == CHOOSE x \in S : \A y \in S : x <= y
         IN  <<least>> \o SortAscending(S \ {least})

\* the years (>= 2016) that have a running activity, oldest first
availableYears ==
    LET runs == SelectSeq(activities, IsRunSrc)
        years == {getFullYear(parse(runs[i].ActivityDate)) : i \in 1..Len(runs)}
    IN  SortAscending({y \in years : y >= 2016})

\* the trail / road split and the two paces every level computes the same way
Breakdown(acts) ==
    LET trailActivities == SelectSeq(acts, IsTrail)
        roadActivities == SelectSeq(acts, IsRoad)
        trailMiles == SumDistance(trailActivities)
        roadMiles == SumDistance(roadActivities)
        trailHours == SumSeconds(trailActivities)
        roadHours == SumSeconds(roadActivities)
        trailPace == IF trailMiles > 0 THEN PaceRatio(trailHours, trailMiles) ELSE NullNumber
        roadPace == IF roadMiles > 0 THEN PaceRatio(roadHours, roadMiles) ELSE NullNumber
    IN  [trailSum |-> trailMiles,
         roadSum |-> roadMiles,
         trailMiles |-> RoundTenths(Miles(trailMiles)),
         roadMiles |-> RoundTenths(Miles(roadMiles)),
         trailPace |-> IF Truthy(trailPace) THEN RoundTenths(trailPace) ELSE Null,
         roadPace |-> IF Truthy(roadPace) THEN RoundTenths(roadPace) ELSE Null]

yearActivities(year) == WithinSeq(runningActivities, startOfYear(year), endOfYear(year))

\* The memo's dependencies are [data.activities, availableYears]: the value is
\* the one computed at mount, when drillDownLevel = initialLevel.
yearlyData ==
    IF initialLevel # "years" THEN <<>>
    ELSE LET years == availableYears
              running == runningActivities
         IN  [i \in 1..Len(years) |->
            LET year == years[i]
                acts == WithinSeq(running, startOfYear(year), endOfYear(year))
                b == Breakdown(acts)
            IN  [year |-> year,
                 acts |-> acts,
                 runs |-> Len(acts),
                 totalMiles |-> RoundTenths(Miles(SumDistance(acts))),
                 trailMiles |-> b.trailMiles,
                 roadMiles |-> b.roadMiles,
                 trailPace |-> b.trailPace,
                 roadPace |-> b.roadPace]]

\* the twelve month buckets of a year
monthlyStats(year) ==
    LET yearRuns == yearActivities(year)
    IN  [i \in 1..12 |->
            LET month == i - 1
                acts == WithinSeq(yearRuns, startOfMonth(year, month), endOfMonth(year, month))
                b == Breakdown(acts)
            IN  [monthNumber |-> month,
                 acts |-> acts,
                 runs |-> Len(acts),
                 runningMiles |-> RoundTenths(Miles(b.trailSum + b.roadSum)),
                 trailMiles |-> b.trailMiles,
                 roadMiles |-> b.roadMiles,
                 trailPace |-> b.trailPace,
                 roadPace |-> b.roadPace]]

monthlyData == IF drillDownLevel # "months" THEN <<>> ELSE monthlyStats(currentYear)

\* new Date(currentYear, selectedMonth, 1) and new Date(currentYear, selectedMonth + 1, 0):
\* both are local midnights
monthStartDay(year, month) == DayNum(year, month, 1)
monthEndDay(year, month) == DayNum(year, month + 1, 0)

weeksOfMonth(year, month) == eachWeekOfInterval(monthStartDay(year, month), monthEndDay(year, month))

\* the running activities between the two midnights
monthActivities(year, month) ==
    WithinSeq(runningActivities, Instant(monthStartDay(year, month), 0), Instant(monthEndDay(year, month), 0))

\* the week buckets of a month of a year
weeklyStats(year, month) ==
    LET weeks == weeksOfMonth(year, month)
        monthRuns == monthActivities(year, month)
    IN  [i \in 1..Len(weeks) |->
            LET acts == WithinSeq(monthRuns, startOfDay(weeks[i]), endOfDay(endOfWeek(weeks[i], 0)))
                b == Breakdown(acts)
            IN  [weekIndex |-> i - 1,
                 acts |-> acts,
                 weekStart |-> weeks[i],
                 week |-> i,
                 runs |-> Len(acts),
                 miles |-> RoundTenths(Miles(SumDistance(acts))),
                 trailMiles |-> b.trailMiles,
                 roadMiles |-> b.roadMiles,
                 trailPace |-> b.trailPace,
                 roadPace |-> b.roadPace]]

weeklyData ==
    IF drillDownLevel # "weeks" \/ selectedMonth = Null THEN <<>>
    ELSE weeklyStats(currentYear, selectedMonth)

\* the running activities of the selected week
weekRunning(weekStart) ==
    WithinSeq(runningActivities, startOfDay(weekStart), endOfDay(endOfWeek(weekStart, 0)))

dailyData ==
    IF drillDownLevel # "days" \/ selectedWeek = NoWeek THEN <<>>
    ELSE LET days == eachDayOfInterval(selectedWeek.weekStart, endOfWeek(selectedWeek.weekStart, 0))
             weekRuns == weekRunning(selectedWeek.weekStart)
         IN  [i \in 1..Len(days) |->
                LET isSameDay(a) == DayOf(a.date) = days[i]
                    acts == SelectSeq(weekRuns, isSameDay)
                    b == Breakdown(acts)
                IN  [dayOfWeek |-> getDay(days[i]),
                     acts |-> acts,
                     fullDate |-> days[i],
                     runs |-> Len(acts),
                     miles |-> RoundTenths(Miles(SumDistance(acts))),
                     trailMiles |-> b.trailMiles,
                     roadMiles |-> b.roadMiles,
                     trailPace |-> b.trailPace,
                     roadPace |-> b.roadPace,
                     activities |-> [j \in 1..Len(acts) |->
                                        [activityId |-> acts[j].src.ActivityID,
                                         isTrail |-> acts[j].isTrail]]]]

(***************************************************************************)
(* InteractiveRunningChart: the handlers.  A click carries the label of a   *)
(* period the rendered chart shows; a click without activeLabel changes     *)
(* nothing.  Each chart is rendered, with its handler, at its own level.    *)
(***************************************************************************)
\* handleYearClick that opens the weeks of January at once
handleYearClick_opensJanuary ==
    /\ drillDownLevel = "years"
    /\ \E i \in 1..Len(yearlyData) :
          LET year == yearlyData[i].year
          IN  /\ selectedYearInternal' = year
              /\ selectedYear' = IF selectedYear # Undefined THEN year ELSE selectedYear
    /\ drillDownLevel' = "weeks"
    /\ selectedMonth' = 0
    /\ selectedWeek' = NoWeek
    /\ selectedFrom' = <<drillDownLevel, selectedMonth, selectedWeek>>
    /\ opened' = 0
    /\ lastOp' = "handleYearClick"
    /\ UNCHANGED <<inputVars, clockVars, coachVars, bibVars, labVars, probeVars>>

handleYearClick ==
    /\ drillDownLevel = "years"
    /\ \E i \in 1..Len(yearlyData) :
          LET year == yearlyData[i].year
          IN  /\ selectedYearInternal' = year
              \* onYearChange is SeasonStats' setSelectedYear; ThePulse passes none
              /\ selectedYear' = IF selectedYear # Undefined THEN year ELSE selectedYear
    /\ drillDownLevel' = "months"
    /\ selectedMonth' = Null
    /\ selectedWeek' = NoWeek
    /\ selectedFrom' = <<drillDownLevel, selectedMonth, selectedWeek>>
    /\ opened' = 0
    /\ lastOp' = "handleYearClick"
    /\ UNCHANGED <<inputVars, clockVars, coachVars, bibVars, labVars, probeVars>>

\* handleMonthClick going straight to the days of the month's first week
handleMonthClick_skipsWeeks ==
    /\ drillDownLevel = "months"
    /\ \E i \in 1..Len(monthlyData) : selectedMonth' = monthlyData[i].monthNumber
    /\ drillDownLevel' = "days"
    /\ selectedWeek' = [weekStart |-> DayNum(currentYear, 0, 1), weekIndex |-> 0]
    /\ selectedFrom' = <<drillDownLevel, selectedMonth, selectedWeek>>
    /\ opened' = 0
    /\ lastOp' = "handleMonthClick"
    /\ UNCHANGED <<inputVars, clockVars, coachVars, bibVars, labVars, probeVars, selectedYear, selectedYearInternal>>

handleMonthClick ==
    /\ drillDownLevel = "months"
    /\ \E i \in 1..Len(monthlyData) : selectedMonth' = monthlyData[i].monthNumber
    /\ drillDownLevel' = "weeks"
    /\ selectedWeek' = NoWeek
    /\ selectedFrom' = <<drillDownLevel, selectedMonth, selectedWeek>>
    /\ opened' = 0
    /\ lastOp' = "handleMonthClick"
    /\ UNCHANGED <<inputVars, clockVars, coachVars, bibVars, labVars, probeVars, selectedYear, selectedYearInternal>>

\* handleWeekClick that moves to the days without recording the week
handleWeekClick_levelOnly ==
    /\ drillDownLevel = "weeks"
    /\ Len(weeklyData) > 0
    /\ drillDownLevel' = "days"
    /\ selectedFrom' = <<drillDownLevel, selectedMonth, selectedWeek>>
    /\ opened' = 0
    /\ lastOp' = "handleWeekClick"
    /\ UNCHANGED <<inputVars, clockVars, coachVars, bibVars, labVars, probeVars, selectedYear, selectedYearInternal,
                   selectedMonth, selectedWeek>>

handleWeekClick ==
    /\ drillDownLevel = "weeks"
    /\ \E i \in 1..Len(weeklyData) :
          selectedWeek' = [weekStart |-> weeklyData[i].weekStart, weekIndex |-> weeklyData[i].weekIndex]
    /\ drillDownLevel' = "days"
    /\ selectedFrom' = <<drillDownLevel, selectedMonth, selectedWeek>>
    /\ opened' = 0
    /\ lastOp' = "handleWeekClick"
    /\ UNCHANGED <<inputVars, clockVars, coachVars, bibVars, labVars, probeVars, selectedYear, selectedYearInternal, selectedMonth>>

\* opens the first activity of the clicked day, when it has one with an id
handleDayClick ==
    /\ drillDownLevel = "days"
    /\ \E i \in 1..Len(dailyData) :
          LET clickedDay == dailyData[i]
          IN  opened' = IF Len(clickedDay.activities) > 0 /\ clickedDay.activities[1].activityId # 0
                        THEN clickedDay.activities[1].activityId
                        ELSE 0
    /\ lastOp' = "handleDayClick"
    /\ UNCHANGED <<inputVars, clockVars, coachVars, bibVars, labVars, probeVars, selectedYear, chartVars>>

\* the handlers that drill one level down
SelectHandlers == {"handleYearClick", "handleMonthClick", "handleWeekClick"}

\* a back button offered whenever the chart is not at the years level
BackOffered_belowYears == drillDownLevel # "years"

\* the back button is rendered when drillDownLevel !== initialLevel
BackOffered == drillDownLevel # initialLevel

\* new Date().getFullYear()
nowYear == getFullYear(now)

\* handleBackClick that forgets to clear the week it leaves
handleBackClick_keepsWeek ==
    /\ BackOffered
    /\ \/ /\ drillDownLevel = "days"
          /\ drillDownLevel' = "weeks"
          /\ UNCHANGED <<selectedWeek, selectedMonth, selectedYearInternal>>
       \/ /\ drillDownLevel = "weeks"
          /\ drillDownLevel' = "months"
          /\ selectedMonth' = Null
          /\ UNCHANGED <<selectedWeek, selectedYearInternal>>
       \/ /\ drillDownLevel = "months"
          /\ drillDownLevel' = initialLevel
          /\ selectedYearInternal' = IF selectedYear # Undefined THEN selectedYear ELSE nowYear
          /\ selectedMonth' = Null
          /\ UNCHANGED selectedWeek
    /\ selectedFrom' = IF lastOp \in SelectHandlers THEN selectedFrom ELSE <<>>
    /\ opened' = 0
    /\ lastOp' = "handleBackClick"
    /\ UNCHANGED <<inputVars, clockVars, coachVars, bibVars, labVars, probeVars, selectedYear>>

handleBackClick ==
    /\ BackOffered
    /\ \/ /\ drillDownLevel = "days"
          /\ drillDownLevel' = "weeks"
          /\ selectedWeek' = NoWeek
          /\ UNCHANGED <<selectedMonth, selectedYearInternal>>
       \/ /\ drillDownLevel = "weeks"
          /\ drillDownLevel' = "months"
          /\ selectedMonth' = Null
          /\ UNCHANGED <<selectedWeek, selectedYearInternal>>
       \/ /\ drillDownLevel = "months"
          /\ drillDownLevel' = initialLevel
          /\ selectedYearInternal' = IF selectedYear # Undefined THEN selectedYear ELSE nowYear
          /\ selectedMonth' = Null
          /\ UNCHANGED selectedWeek
    /\ selectedFrom' = IF lastOp \in SelectHandlers THEN selectedFrom ELSE <<>>
    /\ opened' = 0
    /\ lastOp' = "handleBackClick"
    /\ UNCHANGED <<inputVars, clockVars, coachVars, bibVars, labVars, probeVars, selectedYear>>

(***************************************************************************)
(* SeasonStats and ThePulse: the aggregations outside the chart             *)
(***************************************************************************)
\* Math.round(x), as a whole number
RoundUnits(x) ==
    CASE x.k = "num" -> (2 * x.n + x.d) \div (2 * x.d)
      [] x.k = "inf" -> Infinity
      [] OTHER -> NaN

\* Math.ceil(n / d) for d > 0
Ceil(n, d) == -((-n) \div d)

\* differenceInDays(dateLeft, dateRight): the full days between, truncated toward zero
differenceInDays(dateLeft, dateRight) ==
    IF dateLeft >= dateRight THEN (dateLeft - dateRight) \div TicksPerDay
    ELSE -((dateRight - dateLeft) \div TicksPerDay)

\* the weeks of the year that have begun at the time of the evaluation (new Date())
weeksInYear(year, clock) ==
    LET upTo == IF clock < endOfYear(year) THEN clock ELSE endOfYear(year)
    IN  Ceil(upTo - startOfYear(year), 7 * TicksPerDay)

\* the days of the year up to the time of the evaluation (new Date())
daysInYear(year, clock) ==
    differenceInDays(IF clock < endOfYear(year) THEN clock ELSE endOfYear(year), startOfYear(year)) + 1

\* SeasonStats.runningStats for the selected year
SeasonStats_runningStats(year) ==
    LET acts == yearActivities(year)
        weeks == weeksInYear(year, now)
        avgWeeklyMiles == JsDiv(SumDistance(acts), 100 * (IF weeks > 1 THEN weeks ELSE 1))
        runningDays == Cardinality({DayOf(acts[i].date) : i \in 1..Len(acts)})
        days == daysInYear(year, now)
        consistencyPercent == IF days > 0 THEN JsDiv(100 * runningDays, days) ELSE NaNNumber
        totalRuns == Len(acts)
        totalMiles == SumDistance(acts)
        totalHours == SumSeconds(acts)
        trailRuns == SelectSeq(acts, IsTrail)
        roadRuns == SelectSeq(acts, IsRoad)
        avgPace == IF totalHours > 0 THEN PaceRatio(totalHours, totalMiles) ELSE Num(0, 1)
        avgRunDistance == IF totalRuns > 0 THEN JsDiv(totalMiles, 100 * totalRuns) ELSE Num(0, 1)
    IN  [totalRuns |-> totalRuns,
         totalMiles |-> RoundUnits(Miles(totalMiles)),
         avgWeeklyMiles |-> RoundTenths(avgWeeklyMiles),
         avgPace |-> RoundTenths(avgPace),
         avgRunDistance |-> RoundTenths(avgRunDistance),
         runningDays |-> runningDays,
         consistencyPercent |-> RoundTenths(consistencyPercent),
         trailRuns |-> Len(trailRuns),
         roadRuns |-> Len(roadRuns),
         trailMiles |-> RoundTenths(Miles(SumDistance(trailRuns))),
         roadMiles |-> RoundTenths(Miles(SumDistance(roadRuns)))]

\* SeasonStats.monthlyData: the month boundaries are new Date(year, month, 1)
\* and new Date(year, month + 1, 0), both local midnights
SeasonStats_monthlyData(year) ==
    LET yearRuns == yearActivities(year)
    IN
    [i \in 1..12 |->
        LET month == i - 1
            acts == WithinSeq(yearRuns, Instant(monthStartDay(year, month), 0),
                              Instant(monthEndDay(year, month), 0))
            b == Breakdown(acts)
            totalRunningHours == SumSeconds(acts)
            totalRunningMiles == SumDistance(acts)
            avgPace == IF totalRunningMiles > 0 THEN PaceRatio(totalRunningHours, totalRunningMiles)
                       ELSE Num(0, 1)
        IN  [monthNumber |-> month,
             acts |-> acts,
             runs |-> Len(acts),
             runningMiles |-> RoundTenths(Miles(totalRunningMiles)),
             trailMiles |-> b.trailMiles,
             roadMiles |-> b.roadMiles,
             avgPace |-> IF avgPace.n > 0 THEN RoundTenths(avgPace) ELSE Null,
             trailPace |-> b.trailPace,
             roadPace |-> b.roadPace]]

\* the Best Month card: the activities of month i it sums
BestMonth_monthRuns(year, month) ==
    LET monthStart == Instant(monthStartDay(year, month), 0)
        monthEnd == Instant(monthEndDay(year, month), 0)
        Pick(act) ==
            LET actDate == parse(act.ActivityDate)
            IN  /\ actDate >= monthStart
                /\ actDate <= monthEnd
                /\ includes(toLowerCase(act.ActivityType), <<"r", "u", "n">>)
    IN  SelectSeq(activities, Pick)

RECURSIVE SumResolved(_)
SumResolved(s) == IF s = <<>> THEN 0 ELSE SumResolved(SubSeq(s, 1, Len(s) - 1)) + distanceOf(s[Len(s)])

\* Math.max(...).toFixed(0)
BestMonth(year) ==
    LET sums == {SumResolved(BestMonth_monthRuns(year, m)) : m \in 0..11}
        best == CHOOSE x \in sums : \A y \in sums : y <= x
    IN  RoundUnits(Miles(best))

\* ThePulse.runningStats: the lifetime figures
ThePulse_running ==
    LET Pick(act) == getFullYear(parse(act.ActivityDate)) >= 2016 /\ isRunningActivity(act.ActivityType)
    IN  SelectSeq(activities, Pick)

ThePulse_runningStats ==
    LET acts == ThePulse_running
        IsTrailSrc(a) == isTrailRun(a)
        IsRoadSrc(a) == ~isTrailRun(a)
        trailRuns == SelectSeq(acts, IsTrailSrc)
        roadRuns == SelectSeq(acts, IsRoadSrc)
    IN  [totalRuns |-> Len(acts),
         totalRunningMiles |-> RoundUnits(Miles(SumResolved(acts))),
         trailRuns |-> Len(trailRuns),
         roadRuns |-> Len(roadRuns),
         trailMiles |-> RoundUnits(Miles(SumResolved(trailRuns))),
         roadMiles |-> RoundUnits(Miles(SumResolved(roadRuns)))]

\* TrainingSummaryChart.generateWeeklySummaries: the last 4 weeks, Monday to
\* Sunday, oldest first.  totalTime / totalMiles with totalTime = seconds / 60
\* and totalMiles = c / 100 is the ratio (hours * 60) / miles.
\* a label that counts every earlier week
weekLabel_counted(i) ==
    IF i = 0 THEN <<"T", "h", "i", "s", " ", "W", "e", "e", "k">>
    ELSE ToDigits(i) \o <<" ", "w", "e", "e", "k", "s", " ", "a", "g", "o">>

\* i === 0 ? 'This Week' : i === 1 ? 'Last Week' : `${i} weeks ago`
weekLabel(i) ==
    IF i = 0 THEN <<"T", "h", "i", "s", " ", "W", "e", "e", "k">>
    ELSE IF i = 1 THEN <<"L", "a", "s", "t", " ", "W", "e", "e", "k">>
    ELSE ToDigits(i) \o <<" ", "w", "e", "e", "k", "s", " ", "a", "g", "o">>

generateWeeklySummaries ==
    [k \in 1..4 |->
        LET i == 4 - k
            weekStart == startOfDay(startOfWeek(DayOf(now) - 7 * i, 1))
            weekEnd == endOfDay(endOfWeek(DayOf(now) - 7 * i, 1))
            InWeek(activity) ==
                LET activityDate == parse(activity.start_date)
                IN  activityDate >= weekStart /\ activityDate <= weekEnd
            thisWeek == SelectSeq(stravaActivities, InWeek)
            totalDistance == SumDistance(thisWeek)
            totalTimeSeconds == SumSeconds(thisWeek)
            avgPace == IF totalDistance > 0 THEN PaceRatio(totalTimeSeconds, totalDistance)
                       ELSE Num(0, 1)
        IN  [week |-> DayOf(weekStart),
             weekLabel |-> weekLabel(i),
             totalMiles |-> RoundTenths(Miles(totalDistance)),
             totalTime |-> RoundUnits(Num(totalTimeSeconds, 60)),
             runCount |-> Len(thisWeek),
             avgPace |-> RoundHundredths(avgPace),
             acts |-> thisWeek]]

\* the year <select> of SeasonStats: setSelectedYear(one of availableYears)
SeasonStats_selectYear ==
    /\ initialLevel = "months"
    /\ \E i \in 1..Len(availableYears) :
          /\ availableYears[i] # selectedYear
          /\ selectedYear' = availableYears[i]
    /\ opened' = 0
    /\ lastOp' = "selectYear"
    /\ UNCHANGED <<inputVars, clockVars, coachVars, bibVars, labVars, probeVars, chartVars>>

(***************************************************************************)
(* BibBook and SeasonStats: the race records                                *)
(***************************************************************************)
\* a race distance is a number of 1/100000 mile
RaceMiles(whole, fraction) == whole * 100000 + fraction
Near(distance, target) == Abs(distance - target) < 10000

\* BibBook.timeToSeconds
BibBook_timeToSeconds(timeString) ==
    IF timeString = <<>> THEN Num(0, 1)
    ELSE LET timeStr == IF includes(timeString, <<"T">>) THEN split(timeString, "T")[2] ELSE timeString
             parts == split(timeStr, ":")
         IN  IF Len(parts) = 3 THEN HMS(parseInt(parts[1]), parseInt(parts[2]), parseInt(parts[3]))
             ELSE Num(0, 1)

\* BibBook.formatTime
BibBook_formatTime(timeString) ==
    IF timeString = <<>> THEN <<"N", "/", "A">>
    ELSE IF includes(timeString, <<"T">>) THEN split(timeString, "T")[2]
    ELSE timeString

IsExcelTime(timeStr) ==
    \/ includes(timeStr, <<"1", "9", "0", "0", "-", "0", "1", "-", "0", "1", "T">>)
    \/ includes(timeStr, <<"1", "9", "0", "0", "-", "0", "1", "-", "0", "2", "T">>)

\* SeasonStats.timeToSeconds
SeasonStats_timeToSeconds(timeStr) ==
    IF timeStr = <<>> \/ timeStr = <<"N", "/", "A">> THEN Num(0, 1)
    ELSE IF IsExcelTime(timeStr)
    THEN LET parts == split(split(timeStr, "T")[2], ":")
         IN  HMS(Number(ElementOr(parts, 1)), Number(ElementOr(parts, 2)), Number(ElementOr(parts, 3)))
    ELSE LET parts == split(timeStr, ":")
         IN  IF Len(parts) = 3 THEN HMS(Number(parts[1]), Number(parts[2]), Number(parts[3]))
             ELSE Num(0, 1)

\* SeasonStats.formatTime
SeasonStats_formatTime(timeStr) ==
    IF timeStr = <<>> \/ timeStr = <<"N", "/", "A">> THEN <<"N", "/", "A">>
    ELSE IF IsExcelTime(timeStr) THEN split(timeStr, "T")[2]
    ELSE timeStr

\* let bestRace = races[0]; races.forEach(race => { if (t < best && t > 0) ... }):
\* the index of bestRace after the first n races were visited
RECURSIVE BestIndex(_, _)
BestIndex(seconds, n) ==
    IF n = 0 THEN 1
    ELSE LET best == BestIndex(seconds, n - 1)
         IN  IF LessThan(seconds[n], seconds[best]) /\ Positive(seconds[n]) THEN n ELSE best

NoRecord == [race |-> 0]

BibBook_validRaces == LET HasTime(race) == race.time # <<>> IN SelectSeq(races, HasTime)

\* race.percentile taken as a condition: null, undefined and 0 are all falsy.
HasPercentile_truthy(race) == race.percentile \notin {Null, Absent, 0}

\* race.percentile !== null && race.percentile !== undefined
HasPercentile(race) == race.percentile # Null /\ race.percentile # Absent

BibBook_racesWithPercentile == SelectSeq(BibBook_validRaces, HasPercentile)

RECURSIVE SumPercentile(_)
SumPercentile(s) == IF s = <<>> THEN 0 ELSE SumPercentile(SubSeq(s, 1, Len(s) - 1)) + s[Len(s)].percentile

\* The mean as a fraction of hundredths, which is the percentage the
\* summary reports (avgPercentile * 100).
BibBook_avgPercentile ==
    LET racesWithPercentile == BibBook_racesWithPercentile
    IN  IF Len(racesWithPercentile) > 0
            THEN Num(SumPercentile(racesWithPercentile), Len(racesWithPercentile))
            ELSE Num(0, 1)

BibBook_distances == {"Marathon", "Half Marathon", "10K", "5K", "15K"}

BibBook_targetDistance(distance) ==
    CASE distance = "Marathon" -> RaceMiles(26, 20000)
      [] distance = "Half Marathon" -> RaceMiles(13, 10000)
      [] distance = "10K" -> RaceMiles(6, 21371)
      [] distance = "5K" -> RaceMiles(3, 10000)
      [] distance = "15K" -> RaceMiles(9, 30000)
      [] OTHER -> 0

BibBook_distanceRaces(distance) ==
    LET InClass(race) == Near(race.distance, BibBook_targetDistance(distance))
    IN  SelectSeq(BibBook_validRaces, InClass)

\* BibBook.raceStats.bestTimes
BibBook_bestTimes ==
    [distance \in BibBook_distances |->
        LET distanceRaces == BibBook_distanceRaces(distance)
            seconds == [i \in 1..Len(distanceRaces) |-> BibBook_timeToSeconds(distanceRaces[i].time)]
        IN  IF distanceRaces = <<>> THEN NoRecord
            ELSE LET best == BestIndex(seconds, Len(distanceRaces))
                 IN  [race |-> distanceRaces[best].race,
                      time |-> BibBook_formatTime(distanceRaces[best].time),
                      date |-> distanceRaces[best].date,
                      timeSeconds |-> seconds[best]]]

\* BibBook.getRaceCategory and SeasonStats.getRaceCategory
getRaceCategory(distance) ==
    IF Near(distance, RaceMiles(26, 20000)) THEN "Marathon"
    ELSE IF Near(distance, RaceMiles(13, 10000)) THEN "Half"
    ELSE IF Near(distance, RaceMiles(3, 10000)) THEN "5K"
    ELSE "Other"

\* BibBook.filteredRacesForTable
filteredRacesForTable ==
    LET InCategory(race) == getRaceCategory(race.distance) = raceFilter
    IN  IF raceFilter = "all" THEN BibBook_validRaces ELSE SelectSeq(BibBook_validRaces, InCategory)

SeasonStats_validRaces ==
    LET HasTime(race) == race.time # <<>> /\ race.time # <<"N", "/", "A">>
    IN  SelectSeq(races, HasTime)

SeasonStats_categories == {"Marathon", "Half", "5K", "Other"}

SeasonStats_categoryRaces(category) ==
    LET targetDistance == CASE category = "Marathon" -> RaceMiles(26, 20000)
                            [] category = "Half" -> RaceMiles(13, 10000)
                            [] category = "5K" -> RaceMiles(3, 10000)
                            [] OTHER -> 0
        IsOther(race) == /\ ~Near(race.distance, RaceMiles(26, 20000))
                         /\ ~Near(race.distance, RaceMiles(13, 10000))
                         /\ ~Near(race.distance, RaceMiles(3, 10000))
        InCategory(race) == Near(race.distance, targetDistance)
    IN  IF category = "Other" THEN SelectSeq(SeasonStats_validRaces, IsOther)
        ELSE SelectSeq(SeasonStats_validRaces, InCategory)

\* SeasonStats.raceStats.bestTimes
SeasonStats_bestTimes ==
    [category \in SeasonStats_categories |->
        LET categoryRaces == SeasonStats_categoryRaces(category)
            seconds == [i \in 1..Len(categoryRaces) |-> SeasonStats_timeToSeconds(categoryRaces[i].time)]
        IN  IF categoryRaces = <<>> THEN NoRecord
            ELSE LET best == BestIndex(seconds, Len(categoryRaces))
                 IN  [race |-> categoryRaces[best].race,
                      time |-> SeasonStats_formatTime(categoryRaces[best].time),
                      date |-> categoryRaces[best].date,
                      timeSeconds |-> seconds[best]]]

(***************************************************************************)
(* PerformanceLab: the progression of the races of one distance             *)
(***************************************************************************)
\* PerformanceLab.timeToSeconds
PerformanceLab_timeToSeconds(timeString) ==
    IF timeString = <<>> THEN Num(0, 1)
    ELSE LET parts == split(timeString, ":")
         IN  IF Len(parts) = 3 THEN HMS(parseInt(parts[1]), parseInt(parts[2]), parseInt(parts[3]))
             ELSE Num(0, 1)

\* the label availableDistances gives a race: the bands are tried in this order
distanceLabel(distance) ==
    IF Near(distance, RaceMiles(26, 20000)) THEN <<"M", "a", "r", "a", "t", "h", "o", "n">>
    ELSE IF Near(distance, RaceMiles(13, 10000)) THEN <<"H", "a", "l", "f", " ", "M", "a", "r", "a", "t", "h", "o", "n">>
    ELSE IF Near(distance, RaceMiles(3, 10000)) THEN <<"5", "K">>
    ELSE IF Near(distance, RaceMiles(6, 21371)) THEN <<"1", "0", "K">>
    ELSE IF Near(distance, RaceMiles(9, 30000)) THEN <<"1", "5", "K">>
    ELSE MilesToString(distance) \o <<" ", "m", "i", "l", "e", "s">>

\* PerformanceLab.availableDistances
availableDistances ==
    sortStrings({distanceLabel(races[i].distance) :
                    i \in {j \in 1..Len(races) : races[j].distance # 0 /\ races[j].time # <<>>}})

\* the choice of the effect that runs while nothing is selected
defaultDistance ==
    LET list == availableDistances
        IsMarathon(d) == includes(d, <<"2", "6", ".", "2">>) \/ includes(d, <<"M", "a", "r", "a", "t", "h", "o", "n">>)
        IsHalf(d) == includes(d, <<"1", "3", ".", "1">>) \/ includes(d, <<"H", "a", "l", "f">>)
        marathon == SelectSeq(list, IsMarathon)
        halfMarathon == SelectSeq(list, IsHalf)
    IN  IF marathon # <<>> THEN marathon[1]
        ELSE IF halfMarathon # <<>> THEN halfMarathon[1]
        ELSE list[1]

\* raceProgressData.getDistanceValue
getDistanceValue(label) ==
    IF label = <<"M", "a", "r", "a", "t", "h", "o", "n">> THEN RaceMiles(26, 20000)
    ELSE IF label = <<"H", "a", "l", "f", " ", "M", "a", "r", "a", "t", "h", "o", "n">> THEN RaceMiles(13, 10000)
    ELSE IF label = <<"5", "K">> THEN RaceMiles(3, 10000)
    ELSE IF label = <<"1", "0", "K">> THEN RaceMiles(6, 21371)
    ELSE IF label = <<"1", "5", "K">> THEN RaceMiles(9, 30000)
    ELSE parseFloat(replace(label, <<" ", "m", "i", "l", "e", "s">>, <<>>))

\* the part of race.time that is handed to timeToSeconds
TimeOfDay(time) == IF includes(time, <<"T">>) THEN split(time, "T")[2] ELSE time

\* Array.prototype.sort((a, b) => a.date - b.date), which is stable
RECURSIVE SortByDate(_)
SortByDate(list) ==
    IF list = <<>> THEN <<>>
    ELSE LET sorted == SortByDate(SubSeq(list, 1, Len(list) - 1))
             last == list[Len(list)]
             k == Cardinality({i \in 1..Len(sorted) : sorted[i].date <= last.date})
         IN  SubSeq(sorted, 1, k) \o <<last>> \o SubSeq(sorted, k + 1, Len(sorted))

\* the races of a label: within 0.1 mile of its distance, with a positive time, oldest first
filteredRaces(label) ==
    LET targetDistance == getDistanceValue(label)
        InBand(race) == /\ targetDistance # NaN
                        /\ Near(race.distance, targetDistance)
                        /\ race.time # <<>>
        Timed(race) == Positive(PerformanceLab_timeToSeconds(TimeOfDay(race.time)))
        kept == SelectSeq(SelectSeq(races, InBand), Timed)
    IN  SortByDate([i \in 1..Len(kept) |->
            [race |-> kept[i].race,
             time |-> kept[i].time,
             timeSeconds |-> PerformanceLab_timeToSeconds(TimeOfDay(kept[i].time)).n,
             date |-> parse(kept[i].date)]])

MinOf(S) == CHOOSE x \in S : \A y \in S : x <= y

\* a best that looks at the earlier races only
personalBest_earlierOnly(list, index) ==
    IF index = 1 THEN list[1].timeSeconds
    ELSE MinOf({list[j].timeSeconds : j \in 1..(index - 1)})

\* index === 0 ? race.timeSeconds : Math.min(race.timeSeconds, ...filteredRaces.slice(0, index)...)
personalBest(list, index) ==
    IF index = 1 THEN list[1].timeSeconds
    ELSE MinOf({list[index].timeSeconds} \cup {list[j].timeSeconds : j \in 1..(index - 1)})

\* PerformanceLab.raceProgressData for a label
progressOf(label) ==
    IF label = <<>> THEN <<>>
    ELSE LET list == filteredRaces(label)
         IN  [i \in 1..Len(list) |->
                [raceNumber |-> i,
                 raceName |-> list[i].race,
                 date |-> list[i].date,
                 timeSeconds |-> list[i].timeSeconds,
                 timeFormatted |-> TimeOfDay(list[i].time),
                 personalBest |-> personalBest(list, i)]]

raceProgressData == progressOf(selectedDistance)

\* the effect of PerformanceLab: Marathon, else Half Marathon, else the first label
PerformanceLab_selectDefault ==
    /\ Len(availableDistances) > 0
    /\ selectedDistance = <<>>
    /\ selectedDistance' = defaultDistance
    /\ lastOp' = "selectDefault"
    /\ UNCHANGED <<inputVars, clockVars, coachVars, bibVars, probeVars, selectedYear, chartVars, opened>>

\* the distance <select>: setSelectedDistance(e.target.value)
PerformanceLab_setSelectedDistance ==
    /\ selectedDistance # <<>>
    /\ \E i \in 1..Len(availableDistances) :
          /\ availableDistances[i] # selectedDistance
          /\ selectedDistance' = availableDistances[i]
    /\ lastOp' = "setSelectedDistance"
    /\ UNCHANGED <<inputVars, clockVars, coachVars, bibVars, probeVars, selectedYear, chartVars, opened>>

(***************************************************************************)
(* Medals in the race tables                                                *)
(***************************************************************************)
\* place && place <= 3 taken as a condition: a missing, null or zero place is falsy
OnPodium(place) == place \notin {Absent, Null, 0} /\ place <= 3

\* a medal that reads the division place before the overall podium
BibBook_getMedalEmoji_divisionFirst(race) ==
    IF race.division_place = 1 THEN "gold"
    ELSE IF race.division_place = 2 THEN "silver"
    ELSE IF race.division_place = 3 THEN "bronze"
    ELSE IF OnPodium(race.overall_place) THEN "gold"
    ELSE "null"

\* BibBook: getMedalEmoji of a table row
BibBook_getMedalEmoji(race) ==
    IF OnPodium(race.overall_place) THEN "gold"
    ELSE IF race.division_place = 1 THEN "gold"
    ELSE IF race.division_place = 2 THEN "silver"
    ELSE IF race.division_place = 3 THEN "bronze"
    ELSE "null"

\* SeasonStats: getMedalEmoji of a table row
SeasonStats_getMedalEmoji(race) ==
    IF race.division_place = 1 \/ OnPodium(race.overall_place) THEN "gold"
    ELSE IF race.division_place = 2 THEN "silver"
    ELSE IF race.division_place = 3 THEN "bronze"
    ELSE "null"

\* {(isAgGroupPodium || isPodium) && <span>{getMedalEmoji()}</span>}: "none" is no span
BibBook_medal(race) ==
    IF OnPodium(race.division_place) \/ OnPodium(race.overall_place) THEN BibBook_getMedalEmoji(race) ELSE "none"

SeasonStats_medal(race) ==
    IF OnPodium(race.division_place) \/ OnPodium(race.overall_place) THEN SeasonStats_getMedalEmoji(race) ELSE "none"

\* the rows of a race table, oldest first, each with its medal
TableRows(list, medals) ==
    SortByDate([i \in 1..Len(list) |->
        [race |-> list[i].race,
         date |-> parse(list[i].date),
         overall_place |-> list[i].overall_place,
         division_place |-> list[i].division_place,
         medal |-> medals[i]]])

\* the rows of the Bib Book table
BibBook_tableRows ==
    LET list == filteredRacesForTable
    IN  TableRows(list, [i \in 1..Len(list) |-> BibBook_medal(list[i])])

\* a === b on two JavaScript numbers: NaN equals nothing
StrictEq(a, b) == a.k = "num" /\ b.k = "num" /\ a.n * b.d = b.n * a.d

\* the table's distanceCategory: one of the five labels for a distance that is
\* exactly the canonical figure, else `${race.distance} miles`, which is no
\* key of bestTimes
BibBook_distanceCategory(race) ==
    CASE race.distance = RaceMiles(26, 20000) -> "Marathon"
      [] race.distance = RaceMiles(13, 10000) -> "Half Marathon"
      [] race.distance = RaceMiles(3, 10000) -> "5K"
      [] race.distance = RaceMiles(6, 21371) -> "10K"
      [] race.distance = RaceMiles(9, 30000) -> "15K"
      [] OTHER -> "miles"

\* raceStats.bestTimes[distanceCategory]?.timeSeconds === timeToSeconds(race.time);
\* a class without a race has no entry in bestTimes
BibBook_isPersonalBest(race) ==
    LET distanceCategory == BibBook_distanceCategory(race)
    IN  /\ distanceCategory \in BibBook_distances
        /\ LET best == BibBook_bestTimes[distanceCategory]
           IN  /\ best # NoRecord
               /\ StrictEq(best.timeSeconds, BibBook_timeToSeconds(race.time))

\* SeasonStats.yearRaces of a year
SeasonStats_yearRaces(year) ==
    LET InYear(race) == getFullYear(parse(race.date)) = year
    IN  SelectSeq(races, InYear)

\* the rows of the Season Stats race table of a year, every category shown
SeasonStats_tableRows(year) ==
    LET list == SeasonStats_yearRaces(year)
    IN  TableRows(list, [i \in 1..Len(list) |-> SeasonStats_medal(list[i])])

\* the category <select> of the Bib Book: setRaceFilter(e.target.value)
BibBook_setRaceFilter ==
    /\ \E value \in {"all", "Marathon", "Half", "5K", "Other"} :
          /\ value # raceFilter
          /\ raceFilter' = value
    /\ lastOp' = "setRaceFilter"
    /\ UNCHANGED <<inputVars, clockVars, coachVars, labVars, probeVars, selectedYear, chartVars, opened>>

(***************************************************************************)
(* The classification helpers applied to one activity                      *)
(***************************************************************************)
\* ThePulse renders its lifetime figures over the loaded activity
classify ==
    /\ ~verdict.done
    /\ verdict' = [done |-> TRUE,
                   run |-> isRunningActivity(probe.ActivityType),
                   trail |-> isTrailRun(probe),
                   stats |-> ThePulse_runningStats]
    /\ lastOp' = "classify"
    /\ UNCHANGED <<inputVars, clockVars, coachVars, bibVars, labVars, probe, selectedYear, chartVars, opened>>

(***************************************************************************)
(* The loaded data                                                          *)
(***************************************************************************)
Date(y, m, d, tick) == [valid |-> TRUE, y |-> y, m |-> m, d |-> d, tick |-> tick]
InvalidDate == [valid |-> FALSE, y |-> 0, m |-> 0, d |-> 0, tick |-> 0]

Activity(id, type, date, metres, miles, seconds, elevation, dirt) ==
    [ActivityID |-> id, ActivityType |-> type, ActivityDate |-> date,
     Distance1 |-> metres, Distance |-> miles, MovingTime |-> seconds,
     ElevationGain |-> elevation, DirtDistance |-> dirt]

\* The activities the export may hold: a road run and a trail run on the last
\* day of January 2016 (a Sunday), in March 2018 a trail run without moving
\* time and a run without distance, and a run/walk.
ActivityPool ==
    { Activity(1, <<"R", "u", "n">>, Date(2016, 0, 31, 1), 226, NaN, 1200, 0, 0),
      Activity(2, <<"T", "r", "a", "i", "l", " ", "R", "u", "n">>, Date(2016, 0, 31, 1), 0, 316, 2400, 400, 0),
      Activity(3, <<"R", "u", "n">>, Date(2018, 2, 4, 0), 500, NaN, 0, 0, 300),
      Activity(4, <<"R", "u", "n">>, Date(2018, 2, 10, 1), 0, NaN, 600, 120, 0),
      Activity(5, <<"W", "a", "l", "k", "/", "R", "u", "n">>, Date(2018, 2, 10, 1), 300, NaN, 3000, 0, 0) }

ActivityById(id) == CHOOSE a \in ActivityPool : a.ActivityID = id

\* the rows of an export, in the order of their ids
Export(ids) == LET order == SortAscending(ids) IN [i \in 1..Len(order) |-> ActivityById(order[i])]

Exports == {Export(ids) : ids \in {S \in SUBSET {a.ActivityID : a \in ActivityPool} : Cardinality(S) <= MaxActs}}

\* a Strava activity: distance as the metre figure of hundredths of a mile, moving_time in seconds
StravaActivity(id, date, metres, seconds) ==
    [id |-> id, start_date |-> date, distance |-> metres, seconds |-> seconds]

\* what the Strava feed may return: nothing, or a treadmill entry without
\* distance in the current week and a 5.00 mile run in the week before
StravaFeeds ==
    { <<>>,
      << StravaActivity(1, Date(2018, 5, 13, 1), 0, 900),
         StravaActivity(2, Date(2018, 5, 6, 0), 500, 2500) >> }

NowChoices == {Instant(DayNum(2018, 5, 15), 1)}

(***************************************************************************)
(* AICoach: the Strava sign-in and the actions on a training plan           *)
(***************************************************************************)
ZACH_ATHLETE_ID == 91375424

\* another athlete's id
OtherAthlete == 12345

MaxSends == 1

\* how many of the latest chat messages are followed
MaxMessages == 3

\* what no handler of AICoach writes: the data, the clock of the other views, their state
otherViews == <<inputVars, clockVars, bibVars, labVars, probeVars, selectedYear, chartVars, opened>>

authVars == <<urlCode, strava_token, isAuthenticated, athlete, isAuthorized>>

calendarVars == <<scheduled, calendarEvents, insertsOk, successCount>>

\* one entry of plan.daily_schedule
Workout(day, workout_type, duration_minutes) ==
    [day |-> day, workout_type |-> workout_type, duration_minutes |-> duration_minutes]

\* currentPlan = null, and the null callAnthropicAPI returns
NoPlan == [kind |-> "none", intensity |-> "none", daily_schedule |-> <<>>]

EasyRun == <<"E", "a", "s", "y", " ", "R", "u", "n">>
SpeedWork == <<"S", "p", "e", "e", "d", " ", "W", "o", "r", "k">>
TempoRun == <<"T", "e", "m", "p", "o", " ", "R", "u", "n">>
LongRun == <<"L", "o", "n", "g", " ", "R", "u", "n">>
RecoveryRun == <<"R", "e", "c", "o", "v", "e", "r", "y", " ", "R", "u", "n">>
CrossTraining == <<"C", "r", "o", "s", "s", " ", "T", "r", "a", "i", "n", "i", "n", "g">>
Rest == <<"R", "e", "s", "t">>

\* createDemoPlan(): the sample plan
DemoPlan ==
    [kind |-> "demo", intensity |-> "moderate",
     daily_schedule |->
        << Workout("Monday", EasyRun, 45), Workout("Tuesday", SpeedWork, 60),
           Workout("Wednesday", EasyRun, 50), Workout("Thursday", TempoRun, 55),
           Workout("Friday", Rest, 30), Workout("Saturday", LongRun, 90),
           Workout("Sunday", RecoveryRun, 30) >>]

\* the intensity createPersonalizedFallbackPlan settles on
fallbackIntensity(goals, constraints) ==
    IF includes(toLowerCase(constraints), <<"s", "o", "r", "e">>)
          \/ includes(toLowerCase(constraints), <<"t", "i", "r", "e", "d">>)
       THEN "easy"
    ELSE IF includes(toLowerCase(goals), <<"s", "p", "e", "e", "d">>)
               \/ includes(toLowerCase(goals), <<"f", "a", "s", "t">>)
       THEN "hard"
    ELSE "moderate"

\* createPersonalizedFallbackPlan(userGoals, constraints, recentActivities)
createPersonalizedFallbackPlan(goals, constraints) ==
    LET intensity == fallbackIntensity(goals, constraints)
        easy == intensity = "easy"
        hard == intensity = "hard"
    IN [kind |-> "fallback", intensity |-> intensity,
        daily_schedule |->
           << Workout("Monday", IF easy THEN Rest ELSE EasyRun, IF easy THEN 0 ELSE 45),
              Workout("Tuesday", IF easy THEN CrossTraining ELSE IF hard THEN SpeedWork ELSE EasyRun, 30),
              Workout("Wednesday", IF easy THEN Rest ELSE EasyRun, IF easy THEN 0 ELSE 40),
              Workout("Thursday", IF easy THEN CrossTraining ELSE IF hard THEN TempoRun ELSE EasyRun,
                      IF easy THEN 30 ELSE IF hard THEN 50 ELSE 45),
              Workout("Friday", Rest, 20),
              Workout("Saturday", IF easy THEN EasyRun ELSE LongRun, IF easy THEN 30 ELSE 75),
              Workout("Sunday", IF easy THEN Rest ELSE RecoveryRun, IF easy THEN 0 ELSE 25) >>]

\* a plan an earlier session left in local storage: whatever was saved then,
\* here a week without a rest day and an entry without duration_minutes
StoredPlan ==
    [kind |-> "stored", intensity |-> "moderate",
     daily_schedule |->
        << Workout("Monday", EasyRun, 40), Workout("Tuesday", SpeedWork, 50),
           Workout("Wednesday", EasyRun, Absent), Workout("Thursday", TempoRun, 45),
           Workout("Friday", EasyRun, 30), Workout("Saturday", LongRun, 100),
           Workout("Sunday", RecoveryRun, 30) >>]

\* what localStorage.getItem('stride_ai_plans') may hold when the page is opened
StoredPlans == {<<>>, <<StoredPlan>>}

\* what the user may have typed into the chat input
InputTexts == { <<" ">>, <<"d", "e", "m", "o">>, <<"H", "e", "l", "p">>, <<"F", "a", "s", "t">> }

\* a call that answers with a plan
callAnthropicAPI_answers == StoredPlan

\* callAnthropicAPI(analysisData): the prompt is built, no request is sent, null is returned
callAnthropicAPI == NoPlan

\* Date.now() at n calls of addMessage made back to back, the first at time
\* first: the clock may or may not have moved on between two calls
RECURSIVE Stamps(_, _)
Stamps(first, n) ==
    IF n = 1 THEN {<<first>>}
    ELSE {Append(st, st[n - 1] + step) : st \in Stamps(first, n - 1), step \in {0, 1}}

\* The list keeps its latest MaxMessages ids.  Ids are only ever compared
\* with each other, so each is held as the number of different smaller ids kept.
Latest(list) ==
    LET from == IF Len(list) > MaxMessages THEN Len(list) - MaxMessages + 1 ELSE 1
        kept == SubSeq(list, from, Len(list))
    IN [i \in 1..Len(kept) |-> Cardinality({kept[j] : j \in 1..Len(kept)} \cap 0..(kept[i] - 1))]

\* addMessage for each of the calls st: id: Date.now().toString(), [...prev, message]
addMessage(st) == messages' = Latest(messages \o st)

\* the same for calls whose times are one of the sequences of choices
addMessages(choices) == \E kept \in {Latest(messages \o st) : st \in choices} : messages' = kept

\* Date.now() when the last message was appended
lastId == IF messages = <<>> THEN 0 ELSE messages[Len(messages)]

\* a click, a key or an answer from the network comes in a later millisecond
\* than the message before it
later == lastId + 1

\* the state of AICoach before it is mounted, and of a page that has no coach
CoachNotMounted ==
    /\ urlCode = FALSE
    /\ strava_token = FALSE
    /\ isAuthenticated = FALSE
    /\ athlete = Null
    /\ isAuthorized = FALSE
    /\ isAnalyzing = FALSE
    /\ currentPlan = NoPlan
    /\ planMessages = {}
    /\ lastMessage = "none"
    /\ emailed = 0
    /\ scheduled = 0
    /\ userGoals = <<>>
    /\ inFlight = 0
    /\ stride_ai_plans = <<>>
    /\ messages = <<>>
    /\ calendarEvents = <<>>
    /\ insertsOk = FALSE
    /\ successCount = Null

\* useState(...) and the effect that loads the saved plans: the latest saved
\* plan becomes currentPlan and one welcome message is appended
mountState ==
    /\ isAuthenticated' = FALSE
    /\ athlete' = Null
    /\ isAuthorized' = FALSE
    /\ isAnalyzing' = FALSE
    /\ currentPlan' = IF Len(stride_ai_plans) > 0 THEN stride_ai_plans[Len(stride_ai_plans)] ELSE NoPlan
    /\ planMessages' = {}
    /\ lastMessage' = IF Len(stride_ai_plans) > 0 THEN "previousPlanLoaded" ELSE "welcome"
    /\ messages' = <<0>>
    /\ userGoals' = <<>>
    /\ inFlight' = 0
    /\ UNCHANGED <<strava_token, stride_ai_plans, emailed, calendarVars>>

\* AICoach is mounted again: the page is reloaded, or the user comes back to
\* the AI Coach tab.  The state starts over; a call still in flight belongs
\* to the instance that is gone and its setters reach nothing.
mountCoach ==
    /\ mountState
    /\ lastOp' = "mountCoach"
    /\ UNCHANGED <<otherViews, urlCode>>

\* an authorisation that accepts whoever Strava returns
IsZach_anyAthlete(id) == id # Absent

\* athleteData.id === ZACH_ATHLETE_ID
IsZach(id) == id = ZACH_ATHLETE_ID

\* the effect that finds ?code= in the URL, and handleStravaCallback, which
\* settles at any time after the page is loaded: the token exchange may return
\* no access_token, a fetch may throw, and the athlete is whoever granted
\* access (or an error body without an id); the code stays in the URL until
\* the callback succeeds.  The second message comes after the fetches.
handleStravaCallback ==
    /\ urlCode
    /\ \/ \* tokenData.access_token is missing
          /\ lastMessage' = "authenticating"
          /\ addMessages({<<lastId>>, <<later>>})
          /\ UNCHANGED authVars
       \/ \* a fetch or a json() throws
          /\ lastMessage' = "authError"
          /\ addMessages({<<t, t + 1>> : t \in {lastId, later}})
          /\ UNCHANGED authVars
       \/ \E id \in {ZACH_ATHLETE_ID, OtherAthlete, Absent} :
             /\ athlete' = id
             /\ isAuthenticated' = TRUE
             /\ isAuthorized' = IsZach(id)
             /\ lastMessage' = IF IsZach(id) THEN "welcomeBack" ELSE "restricted"
             /\ addMessages({<<t, t + 1>> : t \in {lastId, later}})
             /\ strava_token' = TRUE
             /\ urlCode' = FALSE
    /\ lastOp' = "handleStravaCallback"
    /\ UNCHANGED <<otherViews, isAnalyzing, currentPlan, planMessages, emailed, calendarVars,
                   userGoals, inFlight, stride_ai_plans>>

\* initiateStravaAuth (STRAVA_CLIENT_ID configured): the page leaves for Strava
\* and is loaded again with a code; the component state starts over, the
\* session storage and the saved plans stay
initiateStravaAuth ==
    /\ ~isAuthenticated
    /\ urlCode' = TRUE
    /\ mountState
    /\ lastOp' = "mountCoach"
    /\ UNCHANGED otherViews

\* an Analyze button that stays enabled while a plan is being generated
AnalyzeEnabled_neverDisabled == isAuthenticated /\ inFlight < 2

\* the Analyze button: rendered once isAuthenticated, disabled={isAnalyzing}
AnalyzeEnabled == isAuthenticated /\ ~isAnalyzing

\* generateTrainingPlan(inputValue) up to its first await
generateTrainingPlan ==
    /\ AnalyzeEnabled
    /\ \E inputValue \in InputTexts :
          IF ~isAuthorized
             THEN /\ lastMessage' = "onlyZach"
                  /\ UNCHANGED <<isAnalyzing, userGoals, inFlight>>
             ELSE /\ isAnalyzing' = TRUE
                  /\ userGoals' = inputValue
                  /\ inFlight' = inFlight + 1
                  /\ lastMessage' = "analyzing"
    /\ addMessage(<<later>>)
    /\ lastOp' = "generateTrainingPlan"
    /\ UNCHANGED <<otherViews, authVars, currentPlan, planMessages, emailed, calendarVars,
                   stride_ai_plans>>

\* generateTrainingPlan after fetchRecentActivities has answered: the three
\* messages of callAnthropicAPI, then the plan it returned is saved and shown,
\* or (null) the fallback plan is shown; or something throws on the way
generateTrainingPlan_settled ==
    /\ inFlight > 0
    /\ \/ LET plan == callAnthropicAPI
          IN IF plan # NoPlan
                THEN \* if (plan): saved, shown
                     /\ stride_ai_plans' = Append(stride_ai_plans, plan)
                     /\ currentPlan' = plan
                     /\ planMessages' = planMessages \cup {plan}
                     /\ lastMessage' = "plan"
                     /\ addMessages(Stamps(later, 4))
                ELSE LET fallbackPlan == createPersonalizedFallbackPlan(userGoals, <<>>)
                     IN /\ currentPlan' = fallbackPlan
                        /\ planMessages' = planMessages \cup {fallbackPlan}
                        /\ lastMessage' = "plan"
                        /\ addMessages(Stamps(later, 5))
                        /\ UNCHANGED stride_ai_plans
       \/ \* catch (error)
          /\ lastMessage' = "planError"
          /\ addMessage(<<later>>)
          /\ UNCHANGED <<currentPlan, planMessages, stride_ai_plans>>
    /\ isAnalyzing' = FALSE
    /\ inFlight' = inFlight - 1
    /\ userGoals' = <<>>
    /\ lastOp' = "generateTrainingPlan_settled"
    /\ UNCHANGED <<otherViews, authVars, emailed, calendarVars>>

\* handleSendMessage: nothing for a blank input, else the user's message and
\* the answer to 'help', to 'demo' (the demo plan) or to anything else
handleSendMessage ==
    /\ \E inputValue \in InputTexts :
          /\ trim(inputValue) # <<>>
          /\ IF includes(toLowerCase(inputValue), <<"h", "e", "l", "p">>)
                THEN /\ lastMessage' = "help"
                     /\ addMessages(Stamps(later, 2))
                     /\ UNCHANGED <<currentPlan, planMessages>>
             ELSE IF includes(toLowerCase(inputValue), <<"d", "e", "m", "o">>)
                THEN /\ currentPlan' = DemoPlan
                     /\ planMessages' = planMessages \cup {DemoPlan}
                     /\ lastMessage' = "plan"
                     /\ addMessages(Stamps(later, 3))
             ELSE /\ lastMessage' = "thanks"
                  /\ addMessages(Stamps(later, 2))
                  /\ UNCHANGED <<currentPlan, planMessages>>
    /\ lastOp' = "handleSendMessage"
    /\ UNCHANGED <<otherViews, authVars, isAnalyzing, emailed, calendarVars,
                   userGoals, inFlight, stride_ai_plans>>

\* the See Demo Plan button
createDemoPlan ==
    /\ currentPlan' = DemoPlan
    /\ planMessages' = planMessages \cup {DemoPlan}
    /\ lastMessage' = "plan"
    /\ addMessages(Stamps(later, 2))
    /\ lastOp' = "createDemoPlan"
    /\ UNCHANGED <<otherViews, authVars, isAnalyzing, emailed, calendarVars,
                   userGoals, inFlight, stride_ai_plans>>

\* the buttons renderPlan puts on a plan message: {isAuthorized && (...)}
PlanActionsShown == isAuthorized /\ planMessages # {}

\* the Email Plan button: sendEmailPlan(plan), with the mail service configured;
\* the second message comes when emailjs.send has answered
sendEmailPlan ==
    /\ PlanActionsShown
    /\ emailed < MaxSends
    /\ emailed' = emailed + 1
    /\ lastMessage' \in {"emailSent", "emailFailed"}
    /\ addMessage(<<later, later + 1>>)
    /\ lastOp' = "sendEmailPlan"
    /\ UNCHANGED <<otherViews, authVars, isAnalyzing, currentPlan, planMessages, calendarVars,
                   userGoals, inFlight, stride_ai_plans>>

\* workout.workout_type.toLowerCase() === 'rest'
isRestDay(workout) == toLowerCase(workout.workout_type) = <<"r", "e", "s", "t">>

\* the event of one workout: addDays(startOfWeek(new Date(), { weekStartsOn: 1 }), index)
\* at 7:00, ending (workout.duration_minutes || 60) minutes later
calendarEvent(workout, index) ==
    [day |-> startOfWeek(DayOf(now), Monday) + index,
     hour |-> 7,
     minutes |-> IF workout.duration_minutes \in {0, Absent} THEN 60 ELSE workout.duration_minutes]

\* the entries of a schedule the async callback of map() sends to the calendar
insertedEvents(schedule) ==
    LET RECURSIVE upTo(_)
        upTo(n) ==
            IF n = 0 THEN <<>>
            ELSE IF isRestDay(schedule[n]) THEN upTo(n - 1)
            ELSE Append(upTo(n - 1), calendarEvent(schedule[n], n - 1))
    IN upTo(Len(schedule))

\* what each promise of calendarPromises resolves to: null for a rest day,
\* the response of the insert for the others
calendarResults(schedule, status) ==
    [i \in 1..Len(schedule) |-> IF isRestDay(schedule[i]) THEN Null ELSE status[i]]

\* the Add to Calendar button: addToGoogleCalendar(plan), with the client id
\* configured.  The sign-in may fail.  map() with an async callback yields a
\* promise for every entry, so filter(p => p !== null) drops none and
\* Promise.all gives one result per entry; an insert may be rejected;
\* r.status on the null of a rest day throws.
addToGoogleCalendar ==
    /\ PlanActionsShown
    /\ scheduled < MaxSends
    /\ scheduled' = scheduled + 1
    /\ \E plan \in planMessages :
          \/ \* loadGoogleAPI or signIn fails
             /\ calendarEvents' = <<>>
             /\ insertsOk' = FALSE
             /\ successCount' = Null
             /\ lastMessage' \in {"calendarPopupBlocked", "calendarFailed"}
          \/ \E answer \in {200, 403}, rejected \in BOOLEAN :
                LET schedule == plan.daily_schedule
                    \* every insert is answered alike but the first, which may be refused
                    status == [i \in 1..Len(schedule) |-> IF i = 1 THEN answer ELSE 200]
                    results == calendarResults(schedule, status)
                    answered == {i \in 1..Len(schedule) : results[i] # Null}
                IN /\ calendarEvents' = insertedEvents(schedule)
                   /\ insertsOk' = (~rejected /\ \A i \in answered : results[i] = 200)
                   /\ IF rejected \/ \E i \in 1..Len(results) : results[i] = Null
                         THEN /\ successCount' = Null
                              /\ lastMessage' = "calendarFailed"
                         ELSE /\ successCount' = Cardinality({i \in 1..Len(results) : results[i] = 200})
                              /\ lastMessage' = "calendarAdded"
    /\ addMessage(<<later, later + 1>>)
    /\ lastOp' = "addToGoogleCalendar"
    /\ UNCHANGED <<otherViews, authVars, isAnalyzing, currentPlan, planMessages, emailed,
                   userGoals, inFlight, stride_ai_plans>>

Init ==
    /\ activities \in Exports
    /\ races = <<>>
    /\ stravaActivities \in StravaFeeds
    /\ now \in NowChoices
    /\ initialLevel \in {"years", "months"}
    \* ThePulse mounts the chart without selectedYear, SeasonStats with its own state
    /\ selectedYear = IF initialLevel = "months" THEN getFullYear(now) ELSE Undefined
    /\ drillDownLevel = initialLevel
    /\ selectedYearInternal = getFullYear(now)
    /\ selectedMonth = Null
    /\ selectedWeek = NoWeek
    /\ selectedFrom = <<>>
    /\ opened = 0
    /\ lastOp = "mount"
    /\ raceFilter = "all"
    /\ selectedDistance = <<>>
    /\ probe = <<>>
    /\ verdict = NoVerdict
    /\ earlier = <<>>
    /\ CoachNotMounted

Next ==
    \/ handleYearClick
    \/ handleMonthClick
    \/ handleWeekClick
    \/ handleDayClick
    \/ handleBackClick
    \/ SeasonStats_selectYear

Spec == Init /\ [][Next]_vars

(***************************************************************************)
(* The Bib Book over a race list                                            *)
(***************************************************************************)
\* percentile is held in hundredths (0.25 is 25); the places are finishing ranks.
Race(name, date, distance, time, percentile, overall_place, division_place) ==
    [race |-> name, date |-> date, distance |-> distance, time |-> time,
     percentile |-> percentile, overall_place |-> overall_place, division_place |-> division_place]

\* The races the data file may hold: three marathons, one not finished, one
\* timed as a spreadsheet date-time, two 5K races, one without a time, and
\* two races of about five miles, a marathon with a mistyped time, and a
\* half marathon entered without a time.  Percentiles and places cover a
\* missing field, null, zero and ranks on and off the podium.
RacePool ==
    { Race(1, Date(2017, 3, 17, 0), RaceMiles(26, 20000), <<"D", "N", "F">>, Absent, Absent, Absent),
      Race(2, Date(2018, 3, 16, 0), RaceMiles(26, 21875), <<"3", ":", "3", "0", ":", "0", "0">>, 25, 2, 2),
      Race(3, Date(2019, 3, 15, 0), RaceMiles(26, 20000), <<"1", "9", "0", "0", "-", "0", "1", "-", "0", "1", "T", "0", "3", ":", "0", "5", ":", "1", "0">>, 0, 10, 1),
      Race(4, Date(2018, 6, 4, 0), RaceMiles(3, 10000), <<"0", ":", "1", "9", ":", "3", "0">>, 10, 5, 3),
      Race(5, Date(2019, 6, 4, 0), RaceMiles(3, 10686), <<"N", "/", "A">>, 50, Null, 4),
      Race(6, Date(2018, 8, 2, 0), RaceMiles(5, 0), <<"0", ":", "4", "0", ":", "0", "0">>, Null, 40, 2),
      Race(7, Date(2019, 8, 1, 0), RaceMiles(5, 5000), <<"0", ":", "4", "1", ":", "3", "0">>, Absent, 1, Absent),
      Race(8, Date(2020, 3, 20, 0), RaceMiles(26, 20000), <<"3", ":", "4", "x", ":", "0", "0">>, 40, 3, 3),
      Race(9, Date(2019, 10, 5, 0), RaceMiles(13, 10000), <<>>, 90, 1, 1) }

InitRace ==
    /\ races \in UNION {[1..n -> RacePool] : n \in 0..MaxRaces}
    /\ raceFilter = "all"
    /\ selectedDistance = <<>>
    /\ activities = <<>>
    /\ stravaActivities = <<>>
    /\ now \in NowChoices
    /\ initialLevel = "years"
    /\ selectedYear = Undefined
    /\ drillDownLevel = initialLevel
    /\ selectedYearInternal = getFullYear(now)
    /\ selectedMonth = Null
    /\ selectedWeek = NoWeek
    /\ selectedFrom = <<>>
    /\ opened = 0
    /\ lastOp = "mount"
    /\ probe = <<>>
    /\ verdict = NoVerdict
    /\ earlier = <<>>
    /\ CoachNotMounted

NextRace ==
    \/ BibBook_setRaceFilter
    \/ PerformanceLab_selectDefault
    \/ PerformanceLab_setSelectedDistance

SpecRace == InitRace /\ [][NextRace]_vars

(***************************************************************************)
(* Rendering the race tables: Array.prototype.sort reorders the array it   *)
(* is called on.  An array is held with the object it is and its items.    *)
(***************************************************************************)
\* sort((a, b) => new Date(a.date).getTime() - new Date(b.date).getTime()), stable
RECURSIVE sortByRaceDate(_)
sortByRaceDate(list) ==
    IF list = <<>> THEN <<>>
    ELSE LET sorted == sortByRaceDate(SubSeq(list, 1, Len(list) - 1))
             last == list[Len(list)]
             k == Cardinality({i \in 1..Len(sorted) : parse(sorted[i].date) <= parse(last.date)})
         IN  SubSeq(sorted, 1, k) \o <<last>> \o SubSeq(sorted, k + 1, Len(sorted))

\* a table that shows the loaded array itself when no category is chosen
BibBook_tableArray_loadedArray ==
    [object |-> IF raceFilter = "all" THEN "data.races" ELSE "filtered",
     items |-> IF raceFilter = "all" THEN races ELSE filteredRacesForTable]

\* BibBook.filteredRacesForTable as an object: validRaces, the new array
\* data.races.filter(race => race.time) returns, or a filter of validRaces
BibBook_tableArray ==
    [object |-> IF raceFilter = "all" THEN "validRaces" ELSE "filtered",
     items |-> filteredRacesForTable]

\* raceStats.agGroupPodiumRaces: validRaces.filter(race => race.division_place && race.division_place <= 3)
BibBook_podiumArray ==
    LET InDivisionTop(race) == OnPodium(race.division_place)
    IN [object |-> "agGroupPodiums", items |-> SelectSeq(BibBook_validRaces, InDivisionTop)]

\* SeasonStats.filteredRacesForTable with every category shown: yearRaces
\* itself, the array data.races.filter(...).sort(...) returned
SeasonStats_tableArray == [object |-> "yearRaces", items |-> SeasonStats_yearRaces(selectedYear)]

\* what the in-place sorts of one render leave in data.races: it is
\* reordered only if one of the sorted arrays is that object
sortInPlace(arrays) ==
    races' = IF \E array \in arrays : array.object = "data.races" THEN sortByRaceDate(races) ELSE races

\* BibBook renders: the podium list and the table are sorted in place
BibBook_render ==
    /\ sortInPlace({BibBook_podiumArray, BibBook_tableArray})
    /\ lastOp' = "BibBook_render"
    /\ UNCHANGED <<activities, stravaActivities, now, initialLevel, clockVars, coachVars, bibVars,
                   labVars, probeVars, selectedYear, chartVars, opened>>

\* SeasonStats renders: the table is sorted in place
SeasonStats_render ==
    /\ initialLevel = "months"
    /\ sortInPlace({SeasonStats_tableArray})
    /\ lastOp' = "SeasonStats_render"
    /\ UNCHANGED <<activities, stravaActivities, now, initialLevel, clockVars, coachVars, bibVars,
                   labVars, probeVars, selectedYear, chartVars, opened>>

\* the views over an export and a race list that is not in date order
InitRender ==
    /\ activities \in Exports
    /\ races \in {<<>>} \cup {<<a, b>> : a, b \in RacePool}
    /\ Len(races) = 2 => races[1].race = 4 /\ races[2].race = 2
    /\ stravaActivities = <<>>
    /\ now \in NowChoices
    /\ initialLevel \in {"years", "months"}
    /\ selectedYear = IF initialLevel = "months" THEN getFullYear(now) ELSE Undefined
    /\ drillDownLevel = initialLevel
    /\ selectedYearInternal = getFullYear(now)
    /\ selectedMonth = Null
    /\ selectedWeek = NoWeek
    /\ selectedFrom = <<>>
    /\ opened = 0
    /\ lastOp = "mount"
    /\ raceFilter = "all"
    /\ selectedDistance = <<>>
    /\ probe = <<>>
    /\ verdict = NoVerdict
    /\ earlier = <<>>
    /\ CoachNotMounted

NextRender ==
    \/ BibBook_render
    \/ SeasonStats_render
    \/ BibBook_setRaceFilter
    \/ SeasonStats_selectYear
    \/ handleYearClick
    \/ handleBackClick

SpecRender == InitRender /\ [][NextRender]_vars

(***************************************************************************)
(* Season Stats evaluated again at a later time                             *)
(***************************************************************************)
MaxClockSteps == 1
ClockStep == 28 * TicksPerDay

\* the selection the views are evaluated for
Selection == <<selectedYear, chartVars, raceFilter, selectedDistance>>

\* the buckets of the chart and of Season Stats for the selection
DrillDownBuckets == <<monthlyData, weeklyData, dailyData, SeasonStats_monthlyData(selectedYear)>>

\* the race statistics of Season Stats and of the Bib Book
RaceStats == <<SeasonStats_bestTimes, BibBook_bestTimes, BibBook_avgPercentile>>

\* what an evaluation of the views gives, with the selection it was made for
Evaluation == <<Selection, DrillDownBuckets, RaceStats, SeasonStats_runningStats(selectedYear)>>

\* four weeks pass between two evaluations of the views
Clock_advance ==
    /\ \E first \in NowChoices : now < first + MaxClockSteps * ClockStep
    /\ now' = now + ClockStep
    /\ lastOp' = "clock"
    /\ earlier' = Evaluation
    /\ UNCHANGED <<activities, races, stravaActivities, initialLevel, coachVars, bibVars, labVars,
                   probeVars, selectedYear, chartVars, opened>>

InitClock ==
    /\ activities \in Exports
    /\ races \in {<<>>} \cup {<<a, b>> : a, b \in RacePool}
    /\ Len(races) = 2 => races[1].race = 2 /\ races[2].race = 4
    /\ stravaActivities = <<>>
    /\ now \in NowChoices
    /\ initialLevel = "months"
    /\ selectedYear = getFullYear(now)
    /\ drillDownLevel = initialLevel
    /\ selectedYearInternal = getFullYear(now)
    /\ selectedMonth = Null
    /\ selectedWeek = NoWeek
    /\ selectedFrom = <<>>
    /\ opened = 0
    /\ lastOp = "mount"
    /\ raceFilter = "all"
    /\ selectedDistance = <<>>
    /\ probe = <<>>
    /\ verdict = NoVerdict
    /\ earlier = <<>>
    /\ CoachNotMounted

NextClock ==
    \/ SeasonStats_selectYear
    \/ handleMonthClick
    \/ handleBackClick
    \/ Clock_advance

SpecClock == InitClock /\ [][NextClock]_vars

\* AICoach mounted: the URL may carry a code, local storage may hold a plan
InitAuth ==
    /\ activities = <<>>
    /\ races = <<>>
    /\ stravaActivities = <<>>
    /\ now \in NowChoices
    /\ initialLevel = "years"
    /\ selectedYear = Undefined
    /\ drillDownLevel = initialLevel
    /\ selectedYearInternal = getFullYear(now)
    /\ selectedMonth = Null
    /\ selectedWeek = NoWeek
    /\ selectedFrom = <<>>
    /\ opened = 0
    /\ lastOp = "mountCoach"
    /\ raceFilter = "all"
    /\ selectedDistance = <<>>
    /\ probe = <<>>
    /\ verdict = NoVerdict
    /\ earlier = <<>>
    /\ urlCode \in BOOLEAN
    /\ strava_token = FALSE
    /\ isAuthenticated = FALSE
    /\ athlete = Null
    /\ isAuthorized = FALSE
    /\ isAnalyzing = FALSE
    /\ stride_ai_plans \in StoredPlans
    /\ currentPlan = IF Len(stride_ai_plans) > 0 THEN stride_ai_plans[Len(stride_ai_plans)] ELSE NoPlan
    /\ planMessages = {}
    /\ lastMessage = IF Len(stride_ai_plans) > 0 THEN "previousPlanLoaded" ELSE "welcome"
    /\ emailed = 0
    /\ scheduled = 0
    /\ userGoals = <<>>
    /\ inFlight = 0
    /\ messages = <<0>>
    /\ calendarEvents = <<>>
    /\ insertsOk = FALSE
    /\ successCount = Null

NextAuth ==
    \/ handleStravaCallback
    \/ initiateStravaAuth
    \/ generateTrainingPlan
    \/ generateTrainingPlan_settled
    \/ createDemoPlan
    \/ sendEmailPlan
    \/ addToGoogleCalendar

SpecAuth == InitAuth /\ [][NextAuth]_vars

\* the chat and the plans of AICoach, without the mail and the calendar
NextChat ==
    \/ mountCoach
    \/ handleStravaCallback
    \/ initiateStravaAuth
    \/ handleSendMessage
    \/ generateTrainingPlan
    \/ generateTrainingPlan_settled
    \/ createDemoPlan

SpecChat == InitAuth /\ [][NextChat]_vars

(***************************************************************************)
(* The classification of one activity                                       *)
(***************************************************************************)
\* One activity of 10.00 miles (or of no distance), its distance in either
\* field, with an elevation gain and a dirt distance of nothing or around
\* the thresholds of 50 ft/mi (500 ft) and 50 % (5.00 mi).
ProbeActivities ==
    { Activity(1, type, Date(2018, 2, 4, 0), metres, miles, 1800, gain, dirt) :
        type \in {<<"R", "u", "n">>, <<"H", "i", "k", "e">>},
        metres \in {0, 1000},
        miles \in {NaN, 1000},
        gain \in {0} \cup 499..MaxGain,
        dirt \in {0} \cup 499..MaxDirt }

InitClassify ==
    /\ probe \in ProbeActivities
    /\ activities = <<probe>>
    /\ verdict = NoVerdict
    /\ earlier = <<>>
    /\ CoachNotMounted
    /\ races = <<>>
    /\ raceFilter = "all"
    /\ selectedDistance = <<>>
    /\ stravaActivities = <<>>
    /\ now \in NowChoices
    /\ initialLevel = "years"
    /\ selectedYear = Undefined
    /\ drillDownLevel = initialLevel
    /\ selectedYearInternal = getFullYear(now)
    /\ selectedMonth = Null
    /\ selectedWeek = NoWeek
    /\ selectedFrom = <<>>
    /\ opened = 0
    /\ lastOp = "mount"

NextClassify == classify

SpecClassify == InitClassify /\ [][NextClassify]_vars

(***************************************************************************)
(* The drill-down as a state machine                                        *)
(***************************************************************************)
Rank(level) ==
    CASE level = "years" -> 1 [] level = "months" -> 2 [] level = "weeks" -> 3 [] OTHER -> 4

\* C1: a select moves the drill-down exactly one level deeper (handleYearClick
\* years to months, handleMonthClick months to weeks, handleWeekClick weeks to
\* days) and a select at the days level leaves drillDownLevel, selectedMonth
\* and selectedWeek unchanged.
C1_SelectOneLevelDeeper ==
    [][ /\ lastOp' = "handleYearClick" => drillDownLevel = "years" /\ drillDownLevel' = "months"
        /\ lastOp' = "handleMonthClick" => drillDownLevel = "months" /\ drillDownLevel' = "weeks"
        /\ lastOp' = "handleWeekClick" => drillDownLevel = "weeks" /\ drillDownLevel' = "days"
        /\ lastOp' \in {"handleYearClick", "handleMonthClick", "handleWeekClick"}
              => Rank(drillDownLevel') = Rank(drillDownLevel) + 1
        /\ lastOp' = "handleDayClick"
              => /\ drillDownLevel = "days"
                 /\ UNCHANGED <<drillDownLevel, selectedMonth, selectedWeek>> ]_vars

\* the chart was drilled from its first level down to a day whose run was opened
C1_Witness ==
    /\ lastOp = "handleDayClick"
    /\ drillDownLevel = "days"
    /\ selectedMonth # Null
    /\ selectedWeek # NoWeek
    /\ opened # 0

\* C2: handleBackClick moves one level shallower and clears the selection of
\* the level it leaves: days to weeks with selectedWeek = null and
\* selectedMonth kept, weeks to months with selectedMonth = null, months to
\* the initial level with selectedMonth = null.
C2_BackOneLevelShallower ==
    [][ lastOp' = "handleBackClick" =>
          /\ Rank(drillDownLevel') = Rank(drillDownLevel) - 1
          /\ drillDownLevel = "days"
                => drillDownLevel' = "weeks" /\ selectedWeek' = NoWeek /\ selectedMonth' = selectedMonth
          /\ drillDownLevel = "weeks" => drillDownLevel' = "months" /\ selectedMonth' = Null
          /\ drillDownLevel = "months" => drillDownLevel' = initialLevel /\ selectedMonth' = Null ]_vars

\* a back from the days of a week to the weeks of its month
C2_Witness ==
    /\ lastOp = "handleBackClick"
    /\ drillDownLevel = "weeks"
    /\ selectedMonth # Null
    /\ selectedWeek = NoWeek

\* C3: the drill-down starts at initialLevel and never becomes shallower: with
\* initialLevel = 'months' the level 'years' is unreachable, with initialLevel
\* = 'years' a back from months returns to years, and the back control is
\* offered exactly when drillDownLevel differs from initialLevel.
C3_NeverShallowerThanInitial ==
    /\ drillDownLevel = initialLevel
    /\ [](Rank(drillDownLevel) >= Rank(initialLevel))
    /\ [](initialLevel = "months" => drillDownLevel # "years")
    /\ []((ENABLED handleBackClick) <=> drillDownLevel # initialLevel)
    /\ [][ lastOp' = "handleBackClick" /\ drillDownLevel = "months" /\ initialLevel = "years"
              => drillDownLevel' = "years" ]_vars

\* The Pulse is back at the years after a back from the months
C3_Witness ==
    /\ initialLevel = "years"
    /\ lastOp = "handleBackClick"
    /\ drillDownLevel = "years"

(***************************************************************************)
(* The buckets on screen                                                    *)
(***************************************************************************)
Bucket(acts, total, b) ==
    [acts |-> acts, total |-> total, trailMiles |-> b.trailMiles, roadMiles |-> b.roadMiles,
     trailPace |-> b.trailPace, roadPace |-> b.roadPace]

\* the buckets of the chart at its current level, each with the activities
\* the code mapped into it
ChartBuckets ==
    LET rows == CASE drillDownLevel = "years" -> yearlyData
                  [] drillDownLevel = "months" -> monthlyData
                  [] drillDownLevel = "weeks" -> weeklyData
                  [] OTHER -> dailyData
    IN  [i \in 1..Len(rows) |->
            LET row == rows[i]
            IN  Bucket(row.acts, CASE drillDownLevel = "years" -> row.totalMiles
                                   [] drillDownLevel = "months" -> row.runningMiles
                                   [] OTHER -> row.miles, row)]

\* the month buckets SeasonStats computes for itself, when it is the mounted view
SeasonBuckets ==
    IF initialLevel # "months" THEN <<>>
    ELSE LET rows == SeasonStats_monthlyData(selectedYear)
         IN  [i \in 1..12 |-> LET row == rows[i] IN Bucket(row.acts, row.runningMiles, row)]

AllBuckets == ChartBuckets \o SeasonBuckets

TrailOf(acts) == SelectSeq(acts, IsTrail)
RoadOf(acts) == SelectSeq(acts, IsRoad)

\* t tenths is c hundredths rounded to the nearest tenth
NearestTenth(t, c) == 10 * t - 5 <= c /\ c < 10 * t + 5

\* p tenths of a minute per mile is (hours * 60) / miles rounded to the nearest tenth
NearestPace(p, seconds, c) == 6 * c * p - 3 * c <= 100 * seconds /\ 100 * seconds < 6 * c * p + 3 * c


\* C4: every calendar period of the requested range has a bucket, in
\* ascending order: 12 months of a year, 7 days of a week, every week of the
\* month, and every calendar year between the earliest and the latest year
\* that has a running activity.
C4_EveryPeriodHasABucket ==
    LET years == yearlyData
        months == monthlyData
        weeks == weeklyData
        days == dailyData
    IN  /\ drillDownLevel = "months" =>
              /\ Len(months) = 12
              /\ \A i \in 1..12 : months[i].monthNumber = i - 1
        /\ drillDownLevel = "days" =>
              /\ Len(days) = 7
              /\ \A i \in 1..7 : days[i].fullDate = selectedWeek.weekStart + i - 1
        /\ drillDownLevel = "weeks" =>
              /\ \A day \in monthStartDay(currentYear, selectedMonth)..monthEndDay(currentYear, selectedMonth) :
                    Cardinality({i \in 1..Len(weeks) :
                        weeks[i].weekStart <= day /\ day <= weeks[i].weekStart + 6}) = 1
              /\ \A i \in 1..(Len(weeks) - 1) : weeks[i].weekStart < weeks[i + 1].weekStart
        /\ drillDownLevel = "years" /\ availableYears # <<>> =>
              /\ \A y \in availableYears[1]..availableYears[Len(availableYears)] :
                    \E i \in 1..Len(years) : years[i].year = y
              /\ \A i \in 1..(Len(years) - 1) : years[i].year < years[i + 1].year

EachBucket(P(_)) == LET all == AllBuckets IN \A i \in 1..Len(all) : P(all[i])
SomeBucket(P(_)) == LET all == AllBuckets IN \E i \in 1..Len(all) : P(all[i])

PaceAsStated(pace, seconds, c) ==
    /\ pace = Null <=> c = 0
    /\ c > 0 => NearestPace(pace, seconds, c)

\* C6 as stated: in every bucket trailPace (roadPace) is null exactly when the
\* trail (road) mileage is 0 and is otherwise (hours x 60) / miles of the
\* subset rounded to one decimal.
C6_PaceNullOnlyWithoutMiles ==
    LET Stated(b) ==
            /\ PaceAsStated(b.trailPace, SumSeconds(TrailOf(b.acts)), SumDistance(TrailOf(b.acts)))
            /\ PaceAsStated(b.roadPace, SumSeconds(RoadOf(b.acts)), SumDistance(RoadOf(b.acts)))
    IN  EachBucket(Stated)

PaceAsAmended(pace, seconds, c) ==
    /\ pace = Null <=> (c = 0 \/ seconds = 0)
    /\ c > 0 /\ seconds > 0 => NearestPace(pace, seconds, c)

\* C6 as amended: trailPace (roadPace) is null exactly when the trail (road)
\* mileage is 0 or the trail (road) moving time is 0, and is otherwise
\* (hours x 60) / miles of the subset rounded to one decimal.
C6_PaceNullWithoutMilesOrTime ==
    LET Amended(b) ==
            /\ PaceAsAmended(b.trailPace, SumSeconds(TrailOf(b.acts)), SumDistance(TrailOf(b.acts)))
            /\ PaceAsAmended(b.roadPace, SumSeconds(RoadOf(b.acts)), SumDistance(RoadOf(b.acts)))
    IN  EachBucket(Amended)

\* a bucket whose trail runs have miles but no moving time, and one with a real pace
C6_Witness ==
    LET NoTime(b) == /\ SumDistance(TrailOf(b.acts)) > 0
                     /\ SumSeconds(TrailOf(b.acts)) = 0
                     /\ b.trailPace = Null
        Paced(b) == b.roadPace > 0
    IN  SomeBucket(NoTime) /\ SomeBucket(Paced)

\* every pace a view reports, with the mileage it was divided by
ReportedPaces ==
    LET all == AllBuckets
        weeks == generateWeeklySummaries
        season == SeasonStats_runningStats(selectedYear)
    IN  {<<all[i].trailPace, SumDistance(TrailOf(all[i].acts))>> : i \in 1..Len(all)}
        \cup {<<all[i].roadPace, SumDistance(RoadOf(all[i].acts))>> : i \in 1..Len(all)}
        \cup {<<weeks[i].avgPace, SumDistance(weeks[i].acts)>> : i \in 1..Len(weeks)}
        \cup (IF initialLevel = "months"
              THEN {<<season.avgPace, SumDistance(yearActivities(selectedYear))>>}
              ELSE {})

\* C7: whenever the total mileage of the aggregated set is 0 the reported
\* pace is 0 or null, never Infinity or NaN, whatever the moving time is: the
\* bucket paces, the Season Stats yearly average pace, the weekly avgPace.
C7_NoPaceDividesByZeroMiles ==
    \A r \in ReportedPaces : r[2] = 0 => r[1] \in {0, Null}

\* the type, compared case-insensitively, contains "run" and neither "walk" nor "hike"
RunRule(type) ==
    LET lower == toLowerCase(type)
    IN  /\ includes(lower, <<"r", "u", "n">>)
        /\ ~includes(lower, <<"w", "a", "l", "k">>)
        /\ ~includes(lower, <<"h", "i", "k", "e">>)

\* C9: every aggregate over running activities selects by the same rule: the
\* lifetime stats, the season stats with the Best Month figure and all the
\* drill-down buckets sum only activities whose type contains "run" and
\* neither "walk" nor "hike".
C9_SameRunRuleEverywhere ==
    LET all == AllBuckets
        lifetime == ThePulse_running
    IN  /\ \A i \in 1..Len(lifetime) : RunRule(lifetime[i].ActivityType)
        /\ \A i \in 1..Len(all) :
              LET acts == all[i].acts
              IN  \A j \in 1..Len(acts) : RunRule(acts[j].src.ActivityType)
        /\ initialLevel = "months" =>
              /\ LET acts == yearActivities(selectedYear)
                 IN  \A j \in 1..Len(acts) : RunRule(acts[j].src.ActivityType)
              /\ \A m \in 0..11 :
                    LET acts == BestMonth_monthRuns(selectedYear, m)
                    IN  \A j \in 1..Len(acts) : RunRule(acts[j].ActivityType)

\* the distance the code resolves for the loaded activity, in hundredths of a mile
ResolvedMiles ==
    IF probe.Distance1 # 0 THEN probe.Distance1
    ELSE IF probe.Distance = NaN THEN 0 ELSE probe.Distance

\* C8: isTrailRun is true exactly when the resolved distance is > 0 and
\* (elevation gain / distance > 50 or dirt distance / distance x 100 > 50);
\* either condition alone suffices, exactly 50 is road, a distance of 0 is
\* never trail; so every running activity is counted in exactly one of the
\* trail and road subsets.
C8_TrailIffSteepOrDirt ==
    verdict.done =>
        LET miles == ResolvedMiles
            steep == 100 * probe.ElevationGain > 50 * miles
            dirty == 100 * probe.DirtDistance > 50 * miles
            all == runningActivities
        IN  /\ verdict.trail <=> (miles > 0 /\ (steep \/ dirty))
            /\ verdict.stats.totalRuns = (IF verdict.run THEN 1 ELSE 0)
            /\ verdict.stats.trailRuns = (IF verdict.run /\ verdict.trail THEN 1 ELSE 0)
            /\ verdict.stats.roadRuns = (IF verdict.run /\ ~verdict.trail THEN 1 ELSE 0)
            /\ Len(TrailOf(all)) + Len(RoadOf(all)) = Len(all)
            /\ Len(all) = verdict.stats.totalRuns
            /\ Len(TrailOf(all)) = verdict.stats.trailRuns

\* a run of 10 miles with 501 ft of gain and no dirt was classified as trail
C8_Witness ==
    /\ verdict.done
    /\ verdict.run
    /\ verdict.trail
    /\ ResolvedMiles = 1000
    /\ probe.ElevationGain = 501
    /\ probe.DirtDistance = 0

\* the fastest valid race of a list, first encountered on a tie
Fastest(list, seconds) ==
    LET valid == {i \in 1..Len(list) : Positive(seconds[i])}
    IN  CHOOSE i \in valid :
            \A j \in valid : seconds[i].n < seconds[j].n \/ (seconds[i].n = seconds[j].n /\ i <= j)

RecordIsFastest(record, list, seconds) ==
    (\E i \in 1..Len(list) : Positive(seconds[i])) =>
        /\ record.race = list[Fastest(list, seconds)].race
        /\ record.timeSeconds = seconds[Fastest(list, seconds)]

\* C10: for every distance class with at least one race with a valid
\* (positive) finish time, the record in bestTimes is the race with the
\* minimum timeSeconds among the valid races of the class, the first on a
\* tie, wherever a race with a 0-second time stands in the input.
C10_RecordIsFastestValidRace ==
    /\ \A distance \in BibBook_distances :
          LET list == BibBook_distanceRaces(distance)
              seconds == [i \in 1..Len(list) |-> BibBook_timeToSeconds(list[i].time)]
          IN  RecordIsFastest(BibBook_bestTimes[distance], list, seconds)
    /\ \A category \in SeasonStats_categories :
          LET list == SeasonStats_categoryRaces(category)
              seconds == [i \in 1..Len(list) |-> SeasonStats_timeToSeconds(list[i].time)]
          IN  RecordIsFastest(SeasonStats_bestTimes[category], list, seconds)

\* C11: in the progression series of the selected distance (races with a
\* positive time, oldest first, raceNumber = 1..n) personalBest[i] is the
\* minimum of timeSeconds[1..i]; so personalBest never increases with
\* raceNumber and personalBest[i] <= timeSeconds[i].
C11_PersonalBestIsRunningMinimum ==
    LET rows == raceProgressData
    IN  \A i \in 1..Len(rows) :
            /\ rows[i].raceNumber = i
            /\ rows[i].timeSeconds > 0
            /\ rows[i].personalBest = MinOf({rows[j].timeSeconds : j \in 1..i})
            /\ rows[i].personalBest <= rows[i].timeSeconds
            /\ i > 1 => /\ rows[i].personalBest <= rows[i - 1].personalBest
                        /\ rows[i - 1].date <= rows[i].date

\* a series whose second race improved the best, given in the input after a later one
C11_Witness ==
    /\ Len(races) = 2
    /\ races[1].date.y > races[2].date.y
    /\ Len(raceProgressData) = 2
    /\ raceProgressData[2].personalBest < raceProgressData[1].personalBest
    /\ raceProgressData[2].personalBest = raceProgressData[2].timeSeconds

CanonicalDistances ==
    {RaceMiles(26, 20000), RaceMiles(13, 10000), RaceMiles(6, 21371), RaceMiles(9, 30000),
     RaceMiles(3, 10000)}

\* the labels whose progression series holds the race
SeriesOf(race) ==
    {i \in 1..Len(availableDistances) :
        LET rows == progressOf(availableDistances[i])
        IN  \E k \in 1..Len(rows) : rows[k].raceName = race.race}

\* C12: distance classes partition the races: a race within 0.1 mile of a
\* canonical distance gets exactly that class, any other race keeps its raw
\* mileage as its class, and every race with a (valid) time is in the
\* progression series of exactly one selectable label.
C12_ClassesPartitionTheRaces ==
    \A i \in 1..Len(races) :
        LET race == races[i]
            near == {c \in CanonicalDistances : Near(race.distance, c)}
        IN  /\ Cardinality(near) <= 1
            /\ \A c \in near : getDistanceValue(distanceLabel(race.distance)) = c
            /\ near = {} => getDistanceValue(distanceLabel(race.distance)) = race.distance
            /\ race.distance # 0 /\ Positive(PerformanceLab_timeToSeconds(TimeOfDay(race.time)))
                  => Cardinality(SeriesOf(race)) = 1

AllDigits(s) == s # <<>> /\ DigitPrefix(s) = s

\* hours * 3600 + minutes * 60 + seconds of the part after "T" or of the whole
\* string, 0 unless that splits on ":" into exactly three numeric parts
SecondsAsSpecified(time) ==
    LET clock == IF includes(time, <<"T">>) THEN split(time, "T")[2] ELSE time
        parts == split(clock, ":")
    IN  IF Len(parts) = 3 /\ \A i \in 1..3 : AllDigits(parts[i])
        THEN Num(Decimal(parts[1]) * 3600 + Decimal(parts[2]) * 60 + Decimal(parts[3]), 1)
        ELSE Num(0, 1)

\* C13: every timeToSeconds maps a finish time to hours * 3600 + minutes * 60
\* + seconds, of the part after "T" when there is one, and to 0, never NaN,
\* for a string that does not split into exactly three numeric parts; so the
\* Bib Book, Season Stats and the Performance Lab derive the same timeSeconds.
C13_TimeToSecondsDegradesToZero ==
    \A i \in 1..Len(races) :
        LET time == races[i].time
        IN  /\ BibBook_timeToSeconds(time) = SecondsAsSpecified(time)
            /\ SeasonStats_timeToSeconds(time) = SecondsAsSpecified(time)
            /\ PerformanceLab_timeToSeconds(TimeOfDay(time)) = SecondsAsSpecified(time)

\* C14: the Bib Book average percentile is the arithmetic mean of the
\* percentile over exactly the races that have a time and whose percentile is
\* neither null nor undefined, a percentile of 0 counting as present, and it
\* is 0 when no race carries a percentile.
Carrying == {i \in 1..Len(races) : races[i].time # <<>> /\ races[i].percentile \notin {Null, Absent}}

RECURSIVE PercentileTotal(_)
PercentileTotal(S) == IF S = {} THEN 0 ELSE LET i == CHOOSE j \in S : TRUE IN races[i].percentile + PercentileTotal(S \ {i})

C14_AveragePercentileOverCarryingRaces ==
    LET S == Carrying
        avg == BibBook_avgPercentile
    IN  /\ avg.k = "num"
        /\ avg.d > 0
        /\ S = {} => avg.n = 0
        /\ S # {} => avg.n * Cardinality(S) = PercentileTotal(S) * avg.d

\* Two races with a time, one at percentile 0 and one above it: the mean
\* counts both.
C14_Witness ==
    /\ Len(races) = 2
    /\ Cardinality(Carrying) = 2
    /\ \E i \in Carrying : races[i].percentile = 0
    /\ \E i \in Carrying : races[i].percentile > 0
    /\ BibBook_avgPercentile.n > 0

\* C15: a race with overall_place <= 3 is shown with a gold medal whatever
\* its division place; otherwise division place 1, 2, 3 gives gold, silver,
\* bronze; a medal is shown exactly when the race is an overall or a
\* divisional podium finish and is then never empty; the Bib Book table and
\* the Season Stats table give the same race the same medal.
RaceYears == {getFullYear(parse(races[i].date)) : i \in 1..Len(races)}

MedalPolicy(row) ==
    IF row.overall_place \in 1..3 THEN "gold"
    ELSE IF row.division_place = 1 THEN "gold"
    ELSE IF row.division_place = 2 THEN "silver"
    ELSE IF row.division_place = 3 THEN "bronze"
    ELSE "none"

FollowsPolicy(rows) ==
    \A i \in 1..Len(rows) :
        LET row == rows[i]
        IN  /\ row.medal = MedalPolicy(row)
            /\ row.medal # "none" <=> (row.overall_place \in 1..3 \/ row.division_place \in 1..3)
            /\ row.medal # "null"

C15_MedalPolicyInBothTables ==
    LET bib == BibBook_tableRows
    IN  /\ FollowsPolicy(bib)
        /\ \A year \in RaceYears :
              LET season == SeasonStats_tableRows(year)
              IN  /\ FollowsPolicy(season)
                  /\ \A i \in 1..Len(bib), j \in 1..Len(season) :
                        bib[i].race = season[j].race => bib[i].medal = season[j].medal

\* The marathon filter shows a race placed second overall and second in its
\* division with a gold medal, next to a race with a division medal only.
C15_Witness ==
    /\ lastOp = "setRaceFilter"
    /\ raceFilter = "Marathon"
    /\ \E i \in 1..Len(BibBook_tableRows) :
          /\ BibBook_tableRows[i].overall_place = 2
          /\ BibBook_tableRows[i].division_place = 2
          /\ BibBook_tableRows[i].medal = "gold"
    /\ \E i \in 1..Len(BibBook_tableRows) :
          /\ BibBook_tableRows[i].overall_place > 3
          /\ BibBook_tableRows[i].medal = "gold"
    /\ \E year \in RaceYears : \E j \in 1..Len(SeasonStats_tableRows(year)) :
          SeasonStats_tableRows(year)[j].overall_place = 2 /\ SeasonStats_tableRows(year)[j].medal = "gold"

\* C16: in the month-to-weeks view every week bucket of the selected month
\* begins on a Monday, the week convention of the four-week summary, and the
\* seven day buckets of a selected week run Monday through Sunday.
C16_WeeksBeginMonday ==
    LET weeks == weeklyData
        days == dailyData
        summaries == generateWeeklySummaries
    IN  /\ \A k \in 1..Len(summaries) : getDay(summaries[k].week) = Monday
        /\ drillDownLevel = "weeks" => \A i \in 1..Len(weeks) : getDay(weeks[i].weekStart) = Monday
        /\ drillDownLevel = "days" =>
              /\ Len(days) = 7
              /\ \A i \in 1..Len(days) : days[i].dayOfWeek = (Monday + i - 1) % 7

\* The same with the week start the chart uses: Sunday through Saturday.
C16_ChartWeeksBeginSunday ==
    LET weeks == weeklyData
        days == dailyData
        summaries == generateWeeklySummaries
    IN  /\ \A k \in 1..Len(summaries) : getDay(summaries[k].week) = Monday
        /\ drillDownLevel = "weeks" => \A i \in 1..Len(weeks) : getDay(weeks[i].weekStart) = 0
        /\ drillDownLevel = "days" =>
              /\ Len(days) = 7
              /\ \A i \in 1..Len(days) : days[i].dayOfWeek = i - 1

\* C17: every running activity dated anywhere within the selected month, at
\* any time of its last day included, is counted in exactly one week bucket
\* of the month's weekly view, so the week buckets' runs and miles add up to
\* the runs and miles of the month's bucket in the monthly view.
RECURSIVE SumInts(_)
SumInts(s) == IF s = <<>> THEN 0 ELSE SumInts(SubSeq(s, 1, Len(s) - 1)) + s[Len(s)]

RECURSIVE Flatten(_)
Flatten(s) == IF s = <<>> THEN <<>> ELSE Flatten(SubSeq(s, 1, Len(s) - 1)) \o s[Len(s)]

\* the bucket of the selected month in the monthly view against its week buckets
WeeksAddUpTo(month, weeks, Counted(_)) ==
    LET acts == SelectSeq(month.acts, Counted)
        held == [i \in 1..Len(weeks) |-> weeks[i].acts]
        runs == [i \in 1..Len(weeks) |-> weeks[i].runs]
    IN  /\ \A j \in 1..Len(acts) :
              Cardinality({i \in 1..Len(held) : \E k \in 1..Len(held[i]) :
                              held[i][k].src.ActivityID = acts[j].src.ActivityID}) = 1
        /\ SumInts(runs) = Len(acts)
        /\ SumDistance(Flatten(held)) = SumDistance(acts)

C17_WeeksAddUpToTheMonth ==
    (drillDownLevel = "weeks" /\ selectedMonth # Null) =>
        LET Counted(act) == TRUE
            months == monthlyStats(currentYear)
            weeks == weeklyData
        IN  WeeksAddUpTo(months[selectedMonth + 1], weeks, Counted)

\* The same for the activities that are not later than midnight of the
\* month's last day, which is where the weekly view ends the month.
C17_WeeksAddUpUntilLastMidnight ==
    (drillDownLevel = "weeks" /\ selectedMonth # Null) =>
        LET lastMidnight == Instant(monthEndDay(currentYear, selectedMonth), 0)
            Counted(act) == act.date <= lastMidnight
            months == monthlyStats(currentYear)
            weeks == weeklyData
        IN  WeeksAddUpTo(months[selectedMonth + 1], weeks, Counted)

\* C18: generateWeeklySummaries returns exactly four week buckets, oldest
\* first, labelled "3 weeks ago", "2 weeks ago", "Last Week", "This Week";
\* each covers one week that starts on Monday, the weeks are disjoint and
\* contiguous and end with the current week, so an activity is counted in at
\* most one bucket; a week without activities is present with runCount 0,
\* totalMiles 0, totalTime 0 and avgPace 0.
SummaryLabels ==
    << <<"3", " ", "w", "e", "e", "k", "s", " ", "a", "g", "o">>,
       <<"2", " ", "w", "e", "e", "k", "s", " ", "a", "g", "o">>,
       <<"L", "a", "s", "t", " ", "W", "e", "e", "k">>,
       <<"T", "h", "i", "s", " ", "W", "e", "e", "k">> >>

C18_FourMondayWeeksOldestFirst ==
    LET weeks == generateWeeklySummaries
        InWeekOf(k, activity) ==
            /\ activity.start_date.valid
            /\ DayOf(parse(activity.start_date)) \in weeks[k].week..(weeks[k].week + 6)
    IN  /\ Len(weeks) = 4
        /\ [k \in 1..4 |-> weeks[k].weekLabel] = SummaryLabels
        /\ \A k \in 1..4 : getDay(weeks[k].week) = Monday
        /\ \A k \in 1..3 : weeks[k + 1].week = weeks[k].week + 7
        /\ DayOf(now) \in weeks[4].week..(weeks[4].week + 6)
        /\ \A k \in 1..4 :
              /\ weeks[k].runCount = Cardinality({j \in 1..Len(stravaActivities) : InWeekOf(k, stravaActivities[j])})
              /\ weeks[k].runCount = 0 =>
                    weeks[k].totalMiles = 0 /\ weeks[k].totalTime = 0 /\ weeks[k].avgPace = 0
        /\ \A j \in 1..Len(stravaActivities) :
              Cardinality({k \in 1..4 : \E a \in 1..Len(weeks[k].acts) :
                              weeks[k].acts[a].id = stravaActivities[j].id}) <= 1

\* A feed with a run last week and an entry this week: two buckets count one
\* activity each and the two oldest weeks are present and empty.
C18_Witness ==
    LET weeks == generateWeeklySummaries
    IN  /\ Len(stravaActivities) = 2
        /\ weeks[1].runCount = 0 /\ weeks[1].totalMiles = 0
        /\ weeks[2].runCount = 0
        /\ weeks[3].runCount = 1 /\ weeks[3].totalMiles > 0
        /\ weeks[4].runCount = 1

\* C19: every aggregation is a function of the data and the selection alone:
\* evaluated again with the same data and the same selection it gives the
\* same output, whatever the time of the evaluation and whatever was shown
\* or clicked before.  This covers the drill-down buckets, the Season Stats
\* running stats (weekly average, consistency) and the race stats.
C19_SameInputsSameOutput ==
    (Len(earlier) > 0 /\ earlier[1] = Selection) =>
        /\ earlier[2] = DrillDownBuckets
        /\ earlier[3] = RaceStats
        /\ earlier[4] = SeasonStats_runningStats(selectedYear)

\* The same without the Season Stats running stats.
C19_BucketsAndRaceStatsArePure ==
    (Len(earlier) > 0 /\ earlier[1] = Selection) =>
        /\ earlier[2] = DrillDownBuckets
        /\ earlier[3] = RaceStats

\* C20: only the authenticated owner acts on plans.  isAuthorized becomes
\* true only by a Strava callback that obtained an access token and returned
\* athlete id 91375424, so isAuthorized implies isAuthenticated and
\* athlete.id = ZACH_ATHLETE_ID; generateTrainingPlan does nothing but post a
\* refusal while isAuthorized is false; sendEmailPlan and addToGoogleCalendar
\* run only while isAuthorized is true, for every plan, demo plans included.
C20_OnlyTheOwnerActsOnPlans ==
    [][/\ isAuthorized' => (isAuthenticated' /\ athlete' = ZACH_ATHLETE_ID /\ strava_token')
       /\ (isAuthorized' /\ ~isAuthorized) => lastOp' = "handleStravaCallback"
       /\ (lastOp' = "generateTrainingPlan" /\ ~isAuthorized) =>
             /\ lastMessage' = "onlyZach"
             /\ UNCHANGED <<urlCode, strava_token, isAuthenticated, athlete, isAuthorized, isAnalyzing,
                            currentPlan, planMessages, emailed, scheduled, inFlight, stride_ai_plans>>
       /\ lastOp' \in {"sendEmailPlan", "addToGoogleCalendar"} =>
             isAuthorized /\ isAuthenticated /\ athlete = ZACH_ATHLETE_ID
       /\ (emailed' # emailed \/ scheduled' # scheduled) => isAuthorized]_vars

\* The owner has signed in, asked for the demo plan, mailed it and put it in
\* the calendar.
C20_Witness ==
    /\ lastOp = "addToGoogleCalendar"
    /\ isAuthorized
    /\ athlete = ZACH_ATHLETE_ID
    /\ planMessages = {DemoPlan}
    /\ emailed > 0
    /\ scheduled > 0

(***************************************************************************)
(* C21 .. C30                                                               *)
(***************************************************************************)
WeekDays == <<"Monday", "Tuesday", "Wednesday", "Thursday", "Friday", "Saturday", "Sunday">>

\* the days a schedule names, in order
DaysOf(schedule) == [i \in 1..Len(schedule) |-> schedule[i].day]

C22_GeneratedPlansArePersisted ==
    [][/\ (lastOp' = "generateTrainingPlan_settled" /\ lastMessage' = "plan") =>
             stride_ai_plans' = Append(stride_ai_plans, currentPlan')
       /\ (lastOp' = "mountCoach" /\ Len(stride_ai_plans) > 0) =>
             currentPlan' = stride_ai_plans[Len(stride_ai_plans)]]_vars

\* What the code keeps of it: the saved list is what the page found when it
\* was opened, and a mounted AICoach shows its last entry (no plan if empty).
C22_MountRestoresTheLastSavedPlan ==
    [][/\ stride_ai_plans' = stride_ai_plans
       /\ lastOp' = "mountCoach" =>
             currentPlan' = IF Len(stride_ai_plans) > 0
                               THEN stride_ai_plans[Len(stride_ai_plans)] ELSE NoPlan]_vars

\* the entries of a schedule that are not rest days, by their place in the week
WorkDays(schedule) ==
    SortAscending({i \in 1..Len(schedule) : toLowerCase(schedule[i].workout_type) # toLowerCase(Rest)})

\* one insert for each entry that is not a rest day, on the Monday of the
\* current week plus the entry's index, at 7:00, for duration_minutes or 60
InsertsAsSpecified(plan) ==
    LET schedule == plan.daily_schedule
        work == WorkDays(schedule)
        monday == startOfWeek(DayOf(now), Monday)
    IN /\ getDay(monday) = Monday /\ monday <= DayOf(now) /\ DayOf(now) < monday + 7
       /\ Len(calendarEvents) = Len(work)
       /\ \A k \in 1..Len(work) :
             /\ calendarEvents[k].day = monday + work[k] - 1
             /\ calendarEvents[k].hour = 7
             /\ calendarEvents[k].minutes =
                   IF schedule[work[k]].duration_minutes \in {0, Absent}
                      THEN 60 ELSE schedule[work[k]].duration_minutes

\* addToGoogleCalendar has signed in and sent its inserts
CalendarReached == lastOp = "addToGoogleCalendar" /\ calendarEvents # <<>>

\* C23: addToGoogleCalendar sends one calendar insert for each schedule entry
\* whose workout_type is not 'rest' in any letter case, dated the Monday of
\* the current week plus the entry's index at 07:00 and lasting
\* duration_minutes (60 when missing or 0), none for rest entries, and when
\* every insert succeeds it ends with the success message whose count is the
\* number of entries that are not rest days, also for plans with rest days.
C23_WorkoutsInsertedAndCounted ==
    CalendarReached =>
       /\ \E plan \in planMessages : InsertsAsSpecified(plan)
       /\ insertsOk => (lastMessage = "calendarAdded" /\ successCount = Len(calendarEvents))

\* The inserts are as specified.
C23_WorkoutsInserted ==
    CalendarReached => \E plan \in planMessages : InsertsAsSpecified(plan)

\* No reachable plan message carries a plan without a rest day, and the
\* success message is never reached.
C23_EveryPlanHasARestDay ==
    /\ \A plan \in planMessages : \E i \in 1..7 : isRestDay(plan.daily_schedule[i])
    /\ lastMessage # "calendarAdded"

\* C24: the loaded arrays are never changed: after any sequence of renders,
\* filter changes, year selections and drill-down operations data.activities
\* and data.races hold the same elements in the same order as when loaded;
\* the in-place sorts of the race tables and the podium list reorder arrays
\* that filter() made.
C24_LoadedArraysStayAsLoaded ==
    [][races' = races /\ activities' = activities]_vars

\* The Bib Book has rendered, every category shown, over a race list that is
\* not in date order, and the list is still not in date order.
C24_Witness ==
    /\ lastOp = "BibBook_render"
    /\ raceFilter = "all"
    /\ Len(races) = 2
    /\ parse(races[1].date) > parse(races[2].date)
    /\ BibBook_tableArray.items = races

\* C25: in every reachable state of InteractiveRunningChart the selections
\* agree with the level: at 'weeks' a month is selected and no week, at
\* 'days' a month and a week are selected, at 'years' and 'months' neither
\* is; January, month number 0, is a selected month.
C25_SelectionsAgreeWithLevel ==
    /\ drillDownLevel = "weeks" => (selectedMonth \in 0..11 /\ selectedWeek = NoWeek)
    /\ drillDownLevel = "days" => (selectedMonth \in 0..11 /\ selectedWeek # NoWeek)
    /\ drillDownLevel \in {"years", "months"} => (selectedMonth = Null /\ selectedWeek = NoWeek)

\* The days of a week of January are shown.
C25_Witness ==
    /\ drillDownLevel = "days"
    /\ selectedMonth = 0
    /\ selectedWeek # NoWeek
    /\ lastOp = "handleWeekClick"

\* C26: a select directly followed by handleBackClick leaves the chart at the level,
\* month and week the select started from: from the months level, from the weeks
\* level, and from the years level of a chart mounted with initialLevel 'years'.
C26_SelectThenBackRestores ==
    (lastOp = "handleBackClick" /\ selectedFrom # <<>>)
        => <<drillDownLevel, selectedMonth, selectedWeek>> = selectedFrom

\* back has just undone the selection of a week of February
C26_Witness ==
    /\ lastOp = "handleBackClick"
    /\ selectedFrom = <<"weeks", 1, NoWeek>>
    /\ drillDownLevel = "weeks"

RECURSIVE SumRuns(_)
SumRuns(buckets) ==
    IF buckets = <<>> THEN 0 ELSE SumRuns(SubSeq(buckets, 1, Len(buckets) - 1)) + buckets[Len(buckets)].runs

RECURSIVE SumBucketDistance(_)
SumBucketDistance(buckets) ==
    IF buckets = <<>> THEN 0
    ELSE SumBucketDistance(SubSeq(buckets, 1, Len(buckets) - 1)) + SumDistance(buckets[Len(buckets)].acts)

\* the bucket of the weekly view that handleWeekClick was given
selectedWeekBucket == weeklyStats(currentYear, selectedMonth)[selectedWeek.weekIndex + 1]

\* the selected week lies inside the selected month, and not on its last day
WeekInsideMonth ==
    /\ selectedWeek.weekStart >= monthStartDay(currentYear, selectedMonth)
    /\ endOfWeek(selectedWeek.weekStart, 0) < monthEndDay(currentYear, selectedMonth)

\* C27: at the days level the runs (and the distance) of the seven day buckets
\* add up to the runs (and the distance) of the week bucket that was selected,
\* whether or not the week straddles the first or last day of the month.
C27_DaysSumToTheWeekBucket ==
    (drillDownLevel = "days" /\ selectedWeek # NoWeek /\ selectedMonth # Null)
        => LET days == dailyData
               bucket == selectedWeekBucket
           IN  /\ Len(days) = 7
               /\ SumRuns(days) = bucket.runs
               /\ SumBucketDistance(days) = SumDistance(bucket.acts)

\* C27, for the weeks that lie inside the month: the day buckets add up to the week bucket
C27_DaysSumInsideTheMonth ==
    (drillDownLevel = "days" /\ selectedWeek # NoWeek /\ selectedMonth # Null /\ WeekInsideMonth)
        => LET days == dailyData
               bucket == selectedWeekBucket
           IN  /\ Len(days) = 7
               /\ SumRuns(days) = bucket.runs
               /\ SumBucketDistance(days) = SumDistance(bucket.acts)

\* C28: isAnalyzing is true exactly while an authorized generateTrainingPlan has
\* not returned: the call sets it before its first await, every way out of the
\* call (plan, fallback plan, exception) resets it, a call that is refused with
\* 'Only Zach can generate new training plans.' leaves it false, and no second
\* call starts from the Analyze button while one is in flight.
C28_AnalyzingExactlyWhileInFlight ==
    /\ inFlight \in {0, 1}
    /\ isAnalyzing <=> inFlight = 1
    /\ (lastOp = "generateTrainingPlan" /\ lastMessage = "analyzing") => (isAnalyzing /\ isAuthorized)
    /\ (lastOp = "generateTrainingPlan" /\ lastMessage = "onlyZach") => (~isAnalyzing /\ ~isAuthorized)
    /\ lastOp = "generateTrainingPlan_settled" => ~isAnalyzing
    /\ isAnalyzing => ~AnalyzeEnabled

\* a generation is in flight and the Analyze button is disabled
C28_Witness ==
    /\ lastOp = "generateTrainingPlan"
    /\ isAnalyzing
    /\ inFlight = 1
    /\ ~AnalyzeEnabled

\* the canonical class a race belongs to under the 0.1 mile tolerance
ClassesOf(race) == {distance \in BibBook_distances : Near(race.distance, BibBook_targetDistance(distance))}

\* the time of the race is the best time recorded for its class
HoldsClassRecord(race) ==
    \E distance \in ClassesOf(race) :
        LET best == BibBook_bestTimes[distance]
        IN  best # NoRecord /\ StrictEq(best.timeSeconds, BibBook_timeToSeconds(race.time))

\* C29: a row of the Bib Book table carries PR exactly when the race's time is
\* the best time of bestTimes for the race's class under the 0.1 mile
\* tolerance, and a row whose time does not parse to a positive number of
\* seconds never carries it.
C29_PRFlagFollowsBestTimes ==
    LET list == filteredRacesForTable
    IN  \A i \in 1..Len(list) :
            /\ BibBook_isPersonalBest(list[i]) <=> HoldsClassRecord(list[i])
            /\ ~Positive(BibBook_timeToSeconds(list[i].time)) => ~BibBook_isPersonalBest(list[i])

\* C29, for the rows whose distance is exactly a canonical figure and whose
\* time parses: PR exactly when the time is the best time of the class
C29_PRFlagOfExactDistances ==
    LET list == filteredRacesForTable
    IN  \A i \in 1..Len(list) :
            (BibBook_distanceCategory(list[i]) \in BibBook_distances /\ Positive(BibBook_timeToSeconds(list[i].time)))
                => (BibBook_isPersonalBest(list[i]) <=> HoldsClassRecord(list[i]))

\* C29: a row is flagged only if its time is the best time of its class
C29_FlaggedRowsHoldTheRecord ==
    LET list == filteredRacesForTable
    IN  \A i \in 1..Len(list) : BibBook_isPersonalBest(list[i]) => HoldsClassRecord(list[i])

\* C30: no two messages of the chat have the same id, whatever calls of
\* addMessage have run, the back-to-back calls of one handleSendMessage or of
\* one plan generation included.
C30_MessageIdsAreDistinct ==
    \A i, j \in 1..Len(messages) : i # j => messages[i] # messages[j]

\* C30: the ids never decrease along the list, a later message has the id of
\* the message before it or a greater one
C30_MessageIdsNeverDecrease ==
    \A i, j \in 1..Len(messages) : i < j => messages[i] <= messages[j]

====
